---- MODULE Spec2Model ----
(***************************************************************************)
(* Model of actions-cache-s3: the streaming archive encoder (ZipStream),   *)
(* the decoder (Unzip), the S3 transfer calls (StreamUpload, GetObject,    *)
(* DeleteObject, ObjectExists, GetLatestObject) and the three verbs that   *)
(* drive them (runPut = Save, runGet = Restore, runDelete = Evict).        *)
(*                                                                         *)
(* Abstractions.  A byte stream is a sequence of items: one "hdr" item per *)
(* tar header, one "data" item per file body, one "end" item for the tar   *)
(* trailer written by tar.Writer.Close.  Under zstd every item written     *)
(* below the tar writer is wrapped in a "z" item and zstd.Encoder.Close    *)
(* appends a "zend" item.  io.Pipe is unbuffered: a write completes only   *)
(* together with a read, so a pipe write is one joint step of the producer *)
(* and the reader.  The S3 upload manager makes an object visible in one   *)
(* step (PutObject, or CompleteMultipartUpload) after it read the body to  *)
(* EOF, and aborts without a visible object on any error.                  *)
(***************************************************************************)
EXTENDS Integers, Sequences, FiniteSets, TLC

\* ---------------------------------------------------------------- bounds
MaxData == 2        \* file bodies are drawn from 1..MaxData
MaxFaults == 1      \* injected failures (I/O, transfer, head) per behaviour
Near == 1           \* sizes are drawn from within Near of each landmark size

\* ---------------------------------------------------------------- data
Jobs == {"job1", "job2"}      \* concurrent CI jobs calling Save
Tester == "caller"            \* a direct caller of ZipStream
Encs == Jobs \cup {Tester}    \* one encoder goroutine per ZipStream call

CompressionZstd == "zstd"
CompressionNone == "none"
Modes == {CompressionZstd, CompressionNone}

Base == "cache"               \* the KEY / DEFAULT_KEY setting
keyExtension(compression) ==
    IF compression = CompressionNone THEN ".tar" ELSE ".tar.zst"
KeyOf(compression) == <<Base, keyExtension(compression)>>
\* An object left under the DEFAULT_KEY prefix by an earlier run with another KEY.
PrevKey == <<"cache-0", keyExtension(CompressionZstd)>>
Keys == {KeyOf(m) : m \in Modes} \cup {PrevKey}
\* The order in which the store lists keys (byte order: "-" sorts before ".").
KeyOrder == <<PrevKey, KeyOf(CompressionNone), KeyOf(CompressionZstd)>>

\* The working tree: a directory "d" holding file "d/a", and a file "b".
Paths == {"b", "d", "d/a"}
PathOrder == <<"b", "d", "d/a">>          \* lexical order, as Glob and Walk return
Parent(p) == IF p = "d/a" THEN "d" ELSE "."
\* A node has a type, permission bits (mode) and, for a regular file, a body.
\* A body is named by a number: 1..MaxData are the bodies files start with, 0
\* is the empty body, and Prefix(c) is what a copy of body c leaves when it
\* stops before the end: some of its first bytes, not all of them.
Prefix(c) == 0 - c
Missing == [type |-> "none", data |-> 0, mode |-> 0]
Dir == [type |-> "dir", data |-> 0, mode |-> \o755]
FileMode(c, mode) == [type |-> "reg", data |-> c, mode |-> mode]
File(c) == FileMode(c, \o644)
\* A symbolic link: data is the position in PathOrder of the path it points
\* to, 0 when it points to nothing.  Walk reports it by Lstat, as itself.
Link(t) == [type |-> "link", data |-> t, mode |-> \o777]
\* perm &^ mask on permission bits: the bits of perm that are not in mask.
RECURSIVE AndNot(_, _)
AndNot(perm, mask) ==
    IF perm = 0 THEN 0
    ELSE (IF perm % 2 = 1 /\ mask % 2 = 0 THEN 1 ELSE 0)
            + 2 * AndNot(perm \div 2, mask \div 2)
Nodes == {Missing, Dir} \cup {File(c) : c \in 1..MaxData}

\* Trees the file system can hold: "d/a" exists only inside a directory "d".
Trees == {t \in [Paths -> Nodes] :
            /\ t["d/a"].type \in {"none", "reg"}
            /\ t["d/a"].type = "reg" => t["d"].type = "dir"}
EmptyTree == [p \in Paths |-> Missing]

\* Glob patterns used as ARTIFACTS; "[" is malformed (filepath.ErrBadPattern).
BadPattern == "["
Patterns == {"*", "d", "b", "nomatch", BadPattern}
TopLevel == {"b", "d"}
Matches(pattern, tree) ==
    CASE pattern = "*" -> {p \in TopLevel : tree[p].type # "none"}
      [] pattern \in TopLevel -> {p \in {pattern} : tree[p].type # "none"}
      [] OTHER -> {}
\* filepath.Walk(match): the match itself and, for a directory, what is below it.
Below(match, tree) ==
    {match} \cup {p \in Paths : Parent(p) = match /\ tree[p].type # "none"}
RECURSIVE InOrder(_, _)
InOrder(order, S) ==
    IF order = <<>> THEN <<>>
    ELSE IF Head(order) \in S THEN <<Head(order)>> \o InOrder(Tail(order), S)
         ELSE InOrder(Tail(order), S)
\* The nodes one pattern visits, in the order archiveArtifacts visits them.
WalkList(pattern, tree) ==
    InOrder(PathOrder, UNION {Below(m, tree) : m \in Matches(pattern, tree)})

\* ---------------------------------------------------------------- wire items
Hdr(p, node) == [t |-> "hdr", name |-> p, kind |-> node.type, mode |-> node.mode]
Data(c) == [t |-> "data", data |-> c]
\* A body that stops before the size its header announces.
Short(c) == [t |-> "short", data |-> c]
End == [t |-> "end"]
ZEnd == [t |-> "zend"]
Z(item) == [t |-> "z", inner |-> item]
\* What reaches the pipe when the tar writer emits item under the given mode.
Wire(compression, item) == IF compression = CompressionZstd THEN Z(item) ELSE item

\* ---------------------------------------------------------------- encoding
\* The node os.Open(file) opens: the node itself, or what a link points to.
Resolve(tree, node) ==
    IF node.type # "link" THEN node
    ELSE IF node.data = 0 THEN Missing
    ELSE tree[PathOrder[node.data]]
\* The callback of the walk after WriteHeader, for a node that is not a
\* directory (archive.go:113-125): os.Open, then io.Copy into the tar writer.
\* The header of a regular file announces its size, so its body is accepted;
\* the header of any other node announces size 0, so the first byte copied
\* is refused (tar.ErrWriteTooLong) and only an empty source passes.
CopyBody(tree, node) ==
    LET src == Resolve(tree, node)
    IN  IF src.type \notin {"reg", "dir"}
        THEN [items |-> <<>>, err |-> "no such file"]
        ELSE IF src.type = "dir"
        THEN [items |-> <<>>, err |-> "is a directory"]
        ELSE IF node.type = "reg"
        THEN [items |-> <<Data(src.data)>>, err |-> "nil"]
        ELSE IF src.data = 0
        THEN [items |-> <<>>, err |-> "nil"]
        ELSE [items |-> <<>>, err |-> "write too long"]
\* The entries archiveArtifacts writes for the nodes of one walk, in order,
\* up to the first error of the callback: a header per node, and after the
\* header of a node that is not a directory what the copy writes.
RECURSIVE Entries(_, _)
Entries(paths, tree) ==
    IF paths = <<>> THEN [items |-> <<>>, err |-> "nil"]
    ELSE LET p == Head(paths)
             copy == IF tree[p].type = "dir" THEN [items |-> <<>>, err |-> "nil"]
                     ELSE CopyBody(tree, tree[p])
         IN  IF copy.err # "nil"
             THEN [items |-> <<Hdr(p, tree[p])>> \o copy.items, err |-> copy.err]
             ELSE LET rest == Entries(Tail(paths), tree)
                  IN  [items |-> <<Hdr(p, tree[p])>> \o copy.items \o rest.items,
                       err |-> rest.err]
\* archiveArtifacts over a tree that does not change while it is walked.
RECURSIVE archiveArtifacts(_, _)
archiveArtifacts(artifacts, tree) ==
    IF artifacts = <<>> THEN [items |-> <<>>, err |-> "nil"]
    ELSE IF Head(artifacts) = BadPattern
         THEN [items |-> <<>>, err |-> "syntax error in pattern"]
         ELSE LET here == Entries(WalkList(Head(artifacts), tree), tree)
              IN  IF here.err # "nil" THEN here
                  ELSE LET rest == archiveArtifacts(Tail(artifacts), tree)
                       IN  [items |-> here.items \o rest.items, err |-> rest.err]
\* Zip: the bytes of the archive file it leaves behind, and its error.  On an
\* error it returns before tw.Close and zw.Close, so the file holds what was
\* written so far.
RECURSIVE WireAll(_, _)
WireAll(compression, items) ==
    IF items = <<>> THEN <<>>
    ELSE <<Wire(compression, Head(items))>> \o WireAll(compression, Tail(items))
Zip(artifacts, compression, tree) ==
    LET a == archiveArtifacts(artifacts, tree)
    IN  IF a.err # "nil"
        THEN [bytes |-> WireAll(compression, a.items), err |-> a.err]
        ELSE [bytes |-> WireAll(compression, a.items \o <<End>>)
                          \o (IF compression = CompressionZstd THEN <<ZEnd>> ELSE <<>>),
              err |-> "nil"]

\* ---------------------------------------------------------------- decoding
NoErr == "nil"
\* The zstd reader over a stored stream: the items it yields to the tar reader
\* and how the stream ends ("nil" = clean EOF).  An item that is no zstd frame
\* is a magic-number error; a non-empty stream that stops before the final
\* frame is an unexpected EOF.
RECURSIVE zstdRead(_)
zstdRead(bytes) ==
    IF bytes = <<>> THEN [items |-> <<>>, err |-> "unexpected EOF"]
    ELSE IF Head(bytes).t = "zend" THEN [items |-> <<>>, err |-> NoErr]
    ELSE IF Head(bytes).t # "z" THEN [items |-> <<>>, err |-> "invalid magic"]
    ELSE LET rest == zstdRead(Tail(bytes))
         IN  [items |-> <<Head(bytes).inner>> \o rest.items, err |-> rest.err]
\* What the tar reader is given: archive.go:203-212.
tarSource(bytes, compression) ==
    IF compression = CompressionZstd
    THEN IF bytes = <<>> THEN [items |-> <<>>, err |-> NoErr] ELSE zstdRead(bytes)
    ELSE [items |-> bytes, err |-> NoErr]

\* The mode of target after os.OpenFile(target, O_CREATE|O_RDWR|O_TRUNC, perm):
\* a file that is created gets perm without the bits of the process's mask; a
\* file that is there is emptied and keeps its mode.
OpenFileMode(tree, target, perm, mask) ==
    IF tree[target].type = "reg" THEN tree[target].mode ELSE AndNot(perm, mask)

\* extractFile with the copy of the body left out: the file is created empty.
extractFileNoCopy(tree, target, header, rest, srcErr, mask) ==
    IF tree[target].type = "dir"
    THEN [fs |-> tree, err |-> "failed creating", used |-> 0]
    ELSE [fs |-> [tree EXCEPT ![target] =
                    FileMode(0, OpenFileMode(tree, target, header.mode, mask))],
          err |-> NoErr,
          used |-> IF rest # <<>> /\ Head(rest).t = "data" THEN 1 ELSE 0]

\* extractFile (archive.go:247-264) for a regular-file header whose body is
\* the next item of the stream: the file is created (truncated) first, then
\* filled by io.Copy.  When the copy fails the function returns the error;
\* the file stays as the copy left it.
extractFile(tree, target, header, rest, srcErr, mask) ==
    IF tree[target].type = "dir"
    THEN [fs |-> tree, err |-> "failed creating", used |-> 0]
    ELSE LET mode == OpenFileMode(tree, target, header.mode, mask) IN
         IF rest # <<>> /\ Head(rest).t = "data"
         THEN [fs |-> [tree EXCEPT ![target] = FileMode(Head(rest).data, mode)],
               err |-> NoErr, used |-> 1]
         ELSE IF rest # <<>> /\ Head(rest).t = "short"
         THEN [fs |-> [tree EXCEPT ![target] = FileMode(Prefix(Head(rest).data), mode)],
               err |-> "unexpected EOF", used |-> 0]
         ELSE [fs |-> [tree EXCEPT ![target] = FileMode(0, mode)],
               err |-> IF rest = <<>> /\ srcErr # NoErr THEN srcErr ELSE "unexpected EOF",
               used |-> 0]

\* The loop of Unzip creating the directory of a directory entry as well.
RECURSIVE untarDirs(_, _, _, _, _)
untarDirs(items, srcErr, tree, count, mask) ==
    IF items = <<>> THEN [fs |-> tree, err |-> srcErr, files |-> count]
    ELSE LET h == Head(items) IN
    IF h.t = "end" THEN [fs |-> tree, err |-> NoErr, files |-> count]
    ELSE IF h.t # "hdr" THEN [fs |-> tree, err |-> "invalid tar header", files |-> count]
    ELSE IF h.kind = "dir"
    THEN untarDirs(Tail(items), srcErr,
                   IF tree[h.name].type = "none"
                   THEN [tree EXCEPT ![h.name].type = "dir",
                                     ![h.name].mode = AndNot(h.mode, mask)]
                   ELSE tree,
                   count, mask)
    ELSE IF h.kind # "reg" THEN untarDirs(Tail(items), srcErr, tree, count, mask)
    ELSE LET dir == Parent(h.name) IN
         IF dir # "." /\ tree[dir].type = "reg"
         THEN [fs |-> tree, err |-> "failed to create directory", files |-> count]
         ELSE LET made == IF dir = "." \/ tree[dir].type = "dir" THEN tree
                          ELSE [tree EXCEPT ![dir].type = "dir",
                                            ![dir].mode = AndNot(\o755, mask)]
                  x == extractFile(made, h.name, h, Tail(items), srcErr, mask)
              IN  IF x.err # NoErr
                  THEN [fs |-> x.fs, err |-> x.err, files |-> count]
                  ELSE untarDirs(SubSeq(items, 2 + x.used, Len(items)), srcErr, x.fs,
                                 count + 1, mask)

\* The loop of Unzip over the items: archive.go:215-240.
RECURSIVE untar(_, _, _, _, _)
untar(items, srcErr, tree, count, mask) ==
    IF items = <<>> THEN [fs |-> tree, err |-> srcErr, files |-> count]
    ELSE LET h == Head(items) IN
    IF h.t = "end" THEN [fs |-> tree, err |-> NoErr, files |-> count]
    ELSE IF h.t # "hdr" THEN [fs |-> tree, err |-> "invalid tar header", files |-> count]
    ELSE IF h.kind # "reg" THEN untar(Tail(items), srcErr, tree, count, mask)
    ELSE LET dir == Parent(h.name) IN
         IF dir # "." /\ tree[dir].type = "reg"
         THEN [fs |-> tree, err |-> "failed to create directory", files |-> count]
         ELSE LET made == IF dir = "." \/ tree[dir].type = "dir" THEN tree
                          ELSE [tree EXCEPT ![dir].type = "dir",
                                            ![dir].mode = AndNot(\o755, mask)]
                  x == extractFile(made, h.name, h, Tail(items), srcErr, mask)
              IN  IF x.err # NoErr
                  THEN [fs |-> x.fs, err |-> x.err, files |-> count]
                  ELSE untar(SubSeq(items, 2 + x.used, Len(items)), srcErr, x.fs,
                             count + 1, mask)

\* Unzip(filename, compression) on the bytes of the archive file, in the
\* directory tree, by a process with the given mask.
Unzip(bytes, compression, tree, mask) ==
    LET src == tarSource(bytes, compression)
    IN  untar(src.items, src.err, tree, 0, mask)

\* The regular files of a tree, as path -> body.
RegularFiles(tree) == {p \in Paths : tree[p].type = "reg"}

\* ---------------------------------------------------------------- part sizes
\* Byte counts of files are int64 in the code and reach terabytes; a file size
\* is held here as whole MiB plus a remainder of bytes, size = mib * MiB + rem
\* with 0 <= rem < MiB, and divided exactly.  Part sizes are plain byte counts.
MiB == 1024 * 1024
minPartSize == 5 * 1024 * 1024
maxPartSize == 100 * 1024 * 1024
defaultDownloadPartSize == minPartSize
maxUploadParts == 10000
Bytes(m, r) == [mib |-> m, rem |-> r]
\* size / n in integer division, for 0 < n <= MiB:
\* mib * MiB + rem = (mib \div n) * n * MiB + (mib % n) * (MiB \div n) * n
\*                   + (mib % n) * (MiB % n) + rem.
Div(size, n) ==
    (size.mib \div n) * MiB + (size.mib % n) * (MiB \div n)
        + ((size.mib % n) * (MiB % n) + size.rem) \div n

\* optimalPartSize without the bounds.
optimalPartSizeUnclamped(fileSize) ==
    LET partSize == Div(fileSize, maxUploadParts)
    IN  ((partSize + MiB - 1) \div MiB) * MiB
\* optimalPartSize without the rounding.
optimalPartSizeNotRounded(fileSize) ==
    LET partSize == Div(fileSize, maxUploadParts)
    IN  IF partSize < minPartSize THEN minPartSize
        ELSE IF partSize > maxPartSize THEN maxPartSize
        ELSE partSize
\* optimalPartSize rounding down to a whole MiB.
optimalPartSizeRoundedDown(fileSize) ==
    LET partSize == Div(fileSize, maxUploadParts)
    IN  IF partSize < minPartSize THEN minPartSize
        ELSE IF partSize > maxPartSize THEN maxPartSize
        ELSE (partSize \div MiB) * MiB
\* optimalPartSize (s3.go:134-149).
optimalPartSize(fileSize) ==
    LET partSize == Div(fileSize, maxUploadParts)
    IN  IF partSize < minPartSize THEN minPartSize
        ELSE IF partSize > maxPartSize THEN maxPartSize
        ELSE ((partSize + MiB - 1) \div MiB) * MiB

\* TransferConfig.uploadConcurrency returning the setting as it is.
uploadConcurrencyNoDefault(config) == config.UploadConcurrency
defaultConcurrency == 10
\* TransferConfig.uploadConcurrency (s3.go:43-48).
uploadConcurrency(config) ==
    IF config.UploadConcurrency > 0 THEN config.UploadConcurrency
    ELSE defaultConcurrency
\* TransferConfig.downloadConcurrency (s3.go:50-55).
downloadConcurrency(config) ==
    IF config.DownloadConcurrency > 0 THEN config.DownloadConcurrency
    ELSE defaultConcurrency

\* TransferConfig.resolveUploadPartSize (s3.go:67-79).
resolveUploadPartSize(config, fileSize) ==
    IF config.UploadPartSize > 0
    THEN LET ps == config.UploadPartSize
         IN  IF ps < minPartSize THEN minPartSize
             ELSE IF ps > maxPartSize THEN maxPartSize
             ELSE ps
    ELSE optimalPartSize(fileSize)
\* TransferConfig.resolveStreamUploadPartSize (s3.go:83-95).
resolveStreamUploadPartSize(config) ==
    IF config.UploadPartSize > 0
    THEN LET ps == config.UploadPartSize
         IN  IF ps < minPartSize THEN minPartSize
             ELSE IF ps > maxPartSize THEN maxPartSize
             ELSE ps
    ELSE minPartSize
\* TransferConfig.downloadPartSize (s3.go:57-62).
downloadPartSize(config) ==
    IF config.DownloadPartSize > 0 THEN config.DownloadPartSize
    ELSE defaultDownloadPartSize

\* Part-size settings exercised: none (0), a negative one, and sizes around
\* the two limits and between them.
PartSizes ==
    {-1, 0, 1, 7 * MiB + 1}
        \cup {minPartSize + d : d \in -Near..Near}
        \cup {maxPartSize + d : d \in -Near..Near}
\* File sizes exercised: around nothing, 100 MiB, the size at which 10000
\* parts of 5 MiB are full, 50 GiB, 500 GiB, the size at which 10000 parts of
\* 100 MiB are full, 1 TiB and 5 TiB; whole MiB and a few bytes more or less.
LandmarkMiB ==
    {0, 100, 50000, 50 * 1024, 500 * 1024, 1000000, 1024 * 1024, 5 * 1024 * 1024}
FileSizes ==
    {Bytes(m + d, r) : m \in LandmarkMiB, d \in -Near..Near,
                       r \in {0, 9999, 10000, MiB - 1}}
      \ {Bytes(m, r) : m \in -Near..-1, r \in {0, 9999, 10000, MiB - 1}}
\* Concurrency settings exercised: none (0), negative ones, and the positive
\* ones up to the default and past it.
Concurrencies == (0 - Near)..(defaultConcurrency + Near)

\* ---------------------------------------------------------------- state
VARIABLES
    action,     \* the job's settings: ARTIFACTS and COMPRESSION (ParseAction)
    fs,         \* the working tree: path -> node
    disk,       \* archive files downloaded into the working directory: key -> bytes
    store,      \* the bucket: key -> object
    clock,      \* the store's time, stamped on objects as LastModified
    faults,     \* failures injected so far
    encPc,      \* per ZipStream call: where the producer goroutine is
    encMode,    \* its compression argument
    encPats,    \* artifact patterns not expanded yet
    encPaths,   \* nodes of the current pattern not archived yet
    encErr,     \* the error the producer is about to publish
    errChan,    \* the buffered completion channel (capacity 1)
    errClosed,  \* whether errChan has been closed
    sent,       \* history: every value sent on errChan
    pw,         \* write end of the pipe: "open", "closed" (EOF) or "error"
    pr,         \* read end of the pipe: "open" or "closed"
    body,       \* what the reader has read from the pipe so far
    archived,   \* history: path -> body written into the stream (0 = none)
    putPc, uploadErr, putRes,            \* runPut per job
    putSaw,     \* history: what the job's existence check was run against
    uploaded,   \* history: objects the job made visible in the store
    overwritten, \* history: whether an upload replaced an object already stored
    callerPc, callerOrder, callerSig,    \* a direct caller of ZipStream
    getPc, getMode, getFile, getRes,     \* runGet
    getPre,     \* history: the working tree when runGet started to unzip
    delPc, delKey, delRes,               \* runDelete
    tc,         \* the TransferConfig of the action (part-size settings)
    fileSize,   \* the size of the file PutObject uploads
    xfer,       \* the transfer call that resolved a part size, and that size
    env,        \* the environment variables the process was started with
    umask,      \* the file mode creation mask of the process
    mainPc,     \* where main is
    exitCode,   \* the exit status of the process
    extractDir, \* the directory a direct caller decodes an archive in
    unzipErr    \* what Unzip returned to that caller

envVars == <<action, fs, disk, store, clock, faults>>
encVars == <<encPc, encMode, encPats, encPaths, encErr, errChan, errClosed, sent,
             pw, pr, body, archived>>
putVars == <<putPc, uploadErr, putRes, putSaw, uploaded, overwritten>>
callerVars == <<callerPc, callerOrder, callerSig>>
getVars == <<getPc, getMode, getFile, getRes, getPre>>
delVars == <<delPc, delKey, delRes>>
xferVars == <<tc, fileSize, xfer>>
procVars == <<env, umask, mainPc, exitCode>>
testVars == <<extractDir, unzipErr>>
vars == <<envVars, encVars, putVars, callerVars, getVars, delVars, xferVars,
          procVars, testVars>>

NoObj == [bytes |-> <<>>, by |-> "nobody", mtime |-> 0]
NoFile == <<"no file">>
NoneArchived == [p \in Paths |-> 0]
\* What an existence check of runPut met: whether the key held an object,
\* whether the head request went through, and whether another runPut had
\* already returned success with its object still stored under the key.
NotChecked == [obj |-> "none", head |-> TRUE, after |-> FALSE]

\* Working trees a job starts from: files "b" and "d/a", directory "d".
InitTrees == {t \in Trees : t["b"].type # "dir" /\ t["d"].type # "reg"}
\* ARTIFACTS settings exercised.
ArtifactLists == {<<"*">>, <<"b", BadPattern>>, <<"nomatch">>, <<"">>, <<>>}
Actions == [artifacts : ArtifactLists, compression : Modes]
FullTree == [p \in Paths |-> IF p = "d" THEN Dir ELSE IF p = "b" THEN File(1) ELSE File(MaxData)]

\* No verb has started: no goroutine, no local archive file, no failure yet.
Idle ==
    /\ disk = [k \in Keys |-> NoFile]
    /\ faults = 0
    /\ encPc = [e \in Encs |-> "off"]
    /\ encMode = [e \in Encs |-> CompressionNone]
    /\ encPats = [e \in Encs |-> <<>>]
    /\ encPaths = [e \in Encs |-> <<>>]
    /\ encErr = [e \in Encs |-> NoErr]
    /\ errChan = [e \in Encs |-> <<>>]
    /\ errClosed = [e \in Encs |-> FALSE]
    /\ sent = [e \in Encs |-> <<>>]
    /\ pw = [e \in Encs |-> "open"]
    /\ pr = [e \in Encs |-> "open"]
    /\ body = [e \in Encs |-> <<>>]
    /\ archived = [e \in Encs |-> NoneArchived]
    /\ putPc = [j \in Jobs |-> "idle"]
    /\ uploadErr = [j \in Jobs |-> NoErr]
    /\ putRes = [j \in Jobs |-> "none"]
    /\ putSaw = [j \in Jobs |-> NotChecked]
    /\ uploaded = [j \in Jobs |-> 0]
    /\ overwritten = FALSE
    /\ callerPc = "idle"
    /\ callerOrder = "none"
    /\ callerSig = "none"
    /\ getPc = "idle"
    /\ getMode = CompressionNone
    /\ getFile = KeyOf(CompressionNone)
    /\ getRes = "none"
    /\ getPre = EmptyTree
    /\ delPc = "idle"
    /\ delKey = KeyOf(CompressionNone)
    /\ delRes = "none"

\* The zero TransferConfig: every setting left to its default.
NoOverride ==
    [UploadConcurrency |-> 0, DownloadConcurrency |-> 0,
     UploadPartSize |-> 0, DownloadPartSize |-> 0]
NoTransfer == [call |-> "none", partSize |-> 0, concurrency |-> 0]
Defaults ==
    /\ tc = NoOverride
    /\ fileSize = Bytes(0, 0)
    /\ xfer = NoTransfer

\* The verbs called directly, not by main: no environment is read and the
\* process does not exit.  The mask is the usual one, 022.
NoEnv == [ACTION_ |-> "", BUCKET |-> "", KEY |-> "", COMPRESSION |-> "", ARTIFACTS |-> <<>>]
NoExit == 0 - 1
NoMain ==
    /\ env = NoEnv
    /\ umask = \o022
    /\ mainPc = "off"
    /\ exitCode = NoExit
\* No archive has been decoded by a direct caller.
NoTest ==
    /\ extractDir = EmptyTree
    /\ unzipErr = "none"

Init ==
    /\ action \in Actions
    /\ fs \in InitTrees
    /\ store = [k \in Keys |-> NoObj]
    /\ clock = 0
    /\ Idle
    /\ Defaults
    /\ NoMain
    /\ NoTest

\* A bucket that earlier runs have saved to: any set of the keys holds an
\* archive of the full tree, written at distinct times.
Earlier == "earlier run"
modeOf(key) == IF key[2] = keyExtension(CompressionNone) THEN CompressionNone ELSE CompressionZstd
SavedAt(key, t) ==
    [bytes |-> Zip(<<"*">>, modeOf(key), FullTree).bytes, by |-> Earlier, mtime |-> t]
SaveTimes ==
    {tm \in [Keys -> 0..Cardinality(Keys)] :
        LET n == Cardinality({k \in Keys : tm[k] # 0})
        IN  {tm[k] : k \in Keys} \ {0} = 1..n}
CacheInit ==
    /\ action \in {a \in Actions : a.artifacts = <<"*">>}
    /\ fs = FullTree
    /\ \E tm \in SaveTimes :
          /\ store = [k \in Keys |-> IF tm[k] = 0 THEN NoObj ELSE SavedAt(k, tm[k])]
          /\ clock = Cardinality({k \in Keys : tm[k] # 0})
    /\ Idle
    /\ Defaults
    /\ NoMain
    /\ NoTest

\* ---------------------------------------------------------------- ZipStream
\* ZipStream: make the pipe and the channel, start the goroutine (archive.go:141-145).
ZipStream(e, artifacts, compression) ==
    /\ encPc' = [encPc EXCEPT ![e] = "setup"]
    /\ encMode' = [encMode EXCEPT ![e] = compression]
    /\ encPats' = [encPats EXCEPT ![e] = artifacts]
    /\ encPaths' = [encPaths EXCEPT ![e] = <<>>]
    /\ encErr' = [encErr EXCEPT ![e] = NoErr]
    /\ errChan' = [errChan EXCEPT ![e] = <<>>]
    /\ errClosed' = [errClosed EXCEPT ![e] = FALSE]
    /\ sent' = [sent EXCEPT ![e] = <<>>]
    /\ pw' = [pw EXCEPT ![e] = "open"]
    /\ pr' = [pr EXCEPT ![e] = "open"]
    /\ body' = [body EXCEPT ![e] = <<>>]
    /\ archived' = [archived EXCEPT ![e] = NoneArchived]

\* The reader of e's pipe is inside a Read call: StreamUpload reading the body
\* for a job, io.ReadAll for the direct caller.
ReaderReady(e) == IF e \in Jobs THEN putPc[e] = "upload" ELSE callerPc = "drain"

\* The producer leaves the body of the goroutine with err (archive.go:156,166,172,179).
Abort(e, err) ==
    /\ encErr' = [encErr EXCEPT ![e] = err]
    /\ encPc' = [encPc EXCEPT ![e] = "send"]

\* One write below the tar writer reaching pw.Write: it completes with a read,
\* or fails once the read end is closed (io.ErrClosedPipe).  next is the
\* producer's position after a completed write.
PipeWrite(e, item, next, closedErr) ==
    \/ /\ pr[e] = "closed"
       /\ Abort(e, closedErr)
       /\ UNCHANGED body
    \/ /\ pr[e] = "open"
       /\ ReaderReady(e)
       /\ body' = [body EXCEPT ![e] = Append(@, Wire(encMode[e], item))]
       /\ encPc' = [encPc EXCEPT ![e] = next]
       /\ UNCHANGED encErr

\* zstd.NewWriter / tar.NewWriter (archive.go:152-162).
EncSetup(e) ==
    /\ encPc[e] = "setup"
    /\ encPc' = [encPc EXCEPT ![e] = "walk"]
    /\ UNCHANGED <<envVars, encMode, encPats, encPaths, encErr, errChan, errClosed,
                   sent, pw, pr, body, archived>>
    /\ UNCHANGED <<putVars, callerVars, getVars, delVars>>
    /\ UNCHANGED <<xferVars, procVars, testVars>>

\* The pattern loop taking a pattern without a match for an error.
EncGlobNoMatchIsError(e) ==
    /\ encPc[e] = "walk"
    /\ encPaths[e] = <<>>
    /\ IF encPats[e] = <<>>
       THEN /\ encPc' = [encPc EXCEPT ![e] = "closeTar"]
            /\ UNCHANGED <<encErr, encPats, encPaths>>
       ELSE IF Head(encPats[e]) = BadPattern
       THEN /\ Abort(e, "syntax error in pattern")
            /\ UNCHANGED <<encPats, encPaths>>
       ELSE IF Matches(Head(encPats[e]), fs) = {}
       THEN /\ Abort(e, "no matches for pattern")
            /\ UNCHANGED <<encPats, encPaths>>
       ELSE /\ encPaths' = [encPaths EXCEPT ![e] = WalkList(Head(encPats[e]), fs)]
            /\ encPats' = [encPats EXCEPT ![e] = Tail(@)]
            /\ UNCHANGED <<encErr, encPc>>
    /\ UNCHANGED <<envVars, encMode, errChan, errClosed, sent, pw, pr, body, archived>>
    /\ UNCHANGED <<putVars, callerVars, getVars, delVars>>
    /\ UNCHANGED <<xferVars, procVars, testVars>>

\* archiveArtifacts, the pattern loop: filepath.Glob of the next pattern, or the
\* end of the loop (archive.go:86-95, 133).
EncGlob(e) ==
    /\ encPc[e] = "walk"
    /\ encPaths[e] = <<>>
    /\ IF encPats[e] = <<>>
       THEN /\ encPc' = [encPc EXCEPT ![e] = "closeTar"]
            /\ UNCHANGED <<encErr, encPats, encPaths>>
       ELSE IF Head(encPats[e]) = BadPattern
       THEN /\ Abort(e, "syntax error in pattern")
            /\ UNCHANGED <<encPats, encPaths>>
       ELSE /\ encPaths' = [encPaths EXCEPT ![e] = WalkList(Head(encPats[e]), fs)]
            /\ encPats' = [encPats EXCEPT ![e] = Tail(@)]
            /\ UNCHANGED <<encErr, encPc>>
    /\ UNCHANGED <<envVars, encMode, errChan, errClosed, sent, pw, pr, body, archived>>
    /\ UNCHANGED <<putVars, callerVars, getVars, delVars>>
    /\ UNCHANGED <<xferVars, procVars, testVars>>

\* The walk callback up to WriteHeader (archive.go:96-112): a node that is gone
\* is an error; otherwise its header is written.
EncHeader(e) ==
    /\ encPc[e] = "walk"
    /\ encPaths[e] # <<>>
    /\ LET p == Head(encPaths[e])
           node == fs[p]
       IN  \/ /\ node.type = "none"
              /\ Abort(e, "no such file")
              /\ UNCHANGED <<body, encPaths>>
           \/ /\ node.type \notin {"none", "dir"}
              /\ PipeWrite(e, Hdr(p, node), "copy", "closed pipe")
              /\ UNCHANGED encPaths
           \/ /\ node.type = "dir"
              /\ PipeWrite(e, Hdr(p, node), "walk", "closed pipe")
              /\ encPaths' = [encPaths EXCEPT
                    ![e] = IF encPc'[e] = "walk" THEN Tail(@) ELSE @]
    /\ UNCHANGED <<envVars, encMode, encPats, errChan, errClosed, sent, pw, pr,
                   archived>>
    /\ UNCHANGED <<putVars, callerVars, getVars, delVars>>
    /\ UNCHANGED <<xferVars, procVars, testVars>>

\* os.Open and io.Copy of the body of a node that is not a directory
\* (archive.go:113-125).
EncCopy(e) ==
    /\ encPc[e] = "copy"
    /\ LET p == Head(encPaths[e])
           copy == CopyBody(fs, fs[p])
       IN  IF copy.err # "nil"
           THEN /\ Abort(e, copy.err)
                /\ UNCHANGED body
           ELSE IF copy.items = <<>>
           THEN /\ encPc' = [encPc EXCEPT ![e] = "walk"]
                /\ UNCHANGED <<body, encErr>>
           ELSE PipeWrite(e, copy.items[1], "walk", "closed pipe")
    /\ LET wrote == encPc'[e] = "walk"
           p == Head(encPaths[e])
       IN  /\ encPaths' = [encPaths EXCEPT ![e] = IF wrote THEN Tail(@) ELSE @]
           /\ archived' = [archived EXCEPT ![e][p] =
                            IF wrote /\ fs[p].type = "reg" THEN fs[p].data ELSE @]
    /\ UNCHANGED <<envVars, encMode, encPats, errChan, errClosed, sent, pw, pr>>
    /\ UNCHANGED <<putVars, callerVars, getVars, delVars>>
    /\ UNCHANGED <<xferVars, procVars, testVars>>

\* tw.Close writes the tar trailer (archive.go:170-174).
EncCloseTar(e) ==
    /\ encPc[e] = "closeTar"
    /\ PipeWrite(e, End,
                 IF encMode[e] = CompressionZstd THEN "closeZstd" ELSE "deferChan",
                 "failed to close tar writer")
    /\ UNCHANGED <<envVars, encMode, encPats, encPaths, errChan, errClosed, sent, pw, pr,
                   archived>>
    /\ UNCHANGED <<putVars, callerVars, getVars, delVars>>
    /\ UNCHANGED <<xferVars, procVars, testVars>>

\* zw.Close flushes the last zstd frame (archive.go:176-182).
EncCloseZstd(e) ==
    /\ encPc[e] = "closeZstd"
    /\ \/ /\ pr[e] = "closed"
          /\ Abort(e, "failed to close zstd writer")
          /\ UNCHANGED body
       \/ /\ pr[e] = "open"
          /\ ReaderReady(e)
          /\ body' = [body EXCEPT ![e] = Append(@, ZEnd)]
          /\ encPc' = [encPc EXCEPT ![e] = "deferChan"]
          /\ UNCHANGED encErr
    /\ UNCHANGED <<envVars, encMode, encPats, encPaths, errChan, errClosed, sent, pw, pr,
                   archived>>
    /\ UNCHANGED <<putVars, callerVars, getVars, delVars>>
    /\ UNCHANGED <<xferVars, procVars, testVars>>

\* The capacity of errChan: make(chan error, 1) (archive.go:143).
ChanCap == 1
\* errChan <- err: a send on the buffered channel, possible while it has room.
EncSend(e) ==
    /\ encPc[e] = "send"
    /\ Len(errChan[e]) < ChanCap
    /\ errChan' = [errChan EXCEPT ![e] = Append(@, encErr[e])]
    /\ sent' = [sent EXCEPT ![e] = Append(@, encErr[e])]
    /\ encPc' = [encPc EXCEPT ![e] = "deferChan"]
    /\ UNCHANGED <<envVars, encMode, encPats, encPaths, encErr, errClosed, pw, pr,
                   body, archived>>
    /\ UNCHANGED <<putVars, callerVars, getVars, delVars>>
    /\ UNCHANGED <<xferVars, procVars, testVars>>

\* The producer without the deferred close(errChan).
EncNoCloseChan(e) ==
    /\ encPc[e] = "deferChan"
    /\ encPc' = [encPc EXCEPT ![e] = "deferPipe"]
    /\ UNCHANGED <<envVars, encMode, encPats, encPaths, encErr, errChan, errClosed,
                   sent, pw, pr, body, archived>>
    /\ UNCHANGED <<putVars, callerVars, getVars, delVars>>
    /\ UNCHANGED <<xferVars, procVars, testVars>>

\* defer close(errChan) (archive.go:147), the first deferred call to run.
EncCloseChan(e) ==
    /\ encPc[e] = "deferChan"
    /\ errClosed' = [errClosed EXCEPT ![e] = TRUE]
    /\ encPc' = [encPc EXCEPT ![e] = "deferPipe"]
    /\ UNCHANGED <<envVars, encMode, encPats, encPaths, encErr, errChan, sent, pw, pr,
                   body, archived>>
    /\ UNCHANGED <<putVars, callerVars, getVars, delVars>>
    /\ UNCHANGED <<xferVars, procVars, testVars>>

\* The producer returning without closing the write end.
pwLeftOpen(err) == "open"
\* How defer pw.Close() leaves the write end: pw.Close is CloseWithError(nil),
\* so the reader sees io.EOF whatever err the producer ended with.
pwClose(err) == "closed"
\* defer pw.Close() (archive.go:146), the last deferred call to run.
EncClosePipe(e) ==
    /\ encPc[e] = "deferPipe"
    /\ pw' = [pw EXCEPT ![e] = pwClose(encErr[e])]
    /\ encPc' = [encPc EXCEPT ![e] = "done"]
    /\ UNCHANGED <<envVars, encMode, encPats, encPaths, encErr, errChan, errClosed,
                   sent, pr, body, archived>>
    /\ UNCHANGED <<putVars, callerVars, getVars, delVars>>
    /\ UNCHANGED <<xferVars, procVars, testVars>>

\* A failure met by the producer that is none of its own making: zstd.NewWriter
\* rejecting its options (archive.go:154-158), the header of a node that cannot
\* be built (archive.go:101-104), a file that cannot be opened or read
\* (archive.go:114-122).  A read that fails after io.Copy has passed on some
\* of the file leaves a short body in the stream.
EncFault(e) ==
    /\ faults < MaxFaults
    /\ faults' = faults + 1
    /\ \/ /\ encPc[e] = "setup"
          /\ encMode[e] = CompressionZstd
          /\ Abort(e, "failed to create zstd writer")
          /\ UNCHANGED body
       \/ /\ encPc[e] = "walk"
          /\ encPaths[e] # <<>>
          /\ fs[Head(encPaths[e])].type # "none"
          /\ Abort(e, "input/output error")
          /\ UNCHANGED body
       \/ /\ encPc[e] = "copy"
          /\ fs[Head(encPaths[e])].type = "reg"
          /\ Abort(e, "input/output error")
          /\ \/ UNCHANGED body
             \/ /\ pr[e] = "open"
                /\ ReaderReady(e)
                /\ body' = [body EXCEPT ![e] =
                      Append(@, Wire(encMode[e], Short(fs[Head(encPaths[e])].data)))]
    /\ UNCHANGED <<action, fs, disk, store, clock, encMode, encPats, encPaths, errChan,
                   errClosed, sent, pw, pr, archived>>
    /\ UNCHANGED <<putVars, callerVars, getVars, delVars>>
    /\ UNCHANGED <<xferVars, procVars, testVars>>

\* One step of the producer goroutine of ZipStream call e.
Encoder(e) ==
    \/ EncSetup(e) \/ EncGlob(e) \/ EncHeader(e) \/ EncCopy(e)
    \/ EncCloseTar(e) \/ EncCloseZstd(e)
    \/ EncSend(e) \/ EncCloseChan(e) \/ EncClosePipe(e)

\* ---------------------------------------------------------------- the store
ErrCodeNotFound == "NotFound"
\* ObjectProperties (s3.go:368-381): the head request on key.  headOk tells
\* whether the request reaches the store and is answered; when it does not
\* (no client, no connection, access denied) there is no output.
ObjectProperties(key, headOk) ==
    IF ~headOk THEN [nil |-> TRUE, err |-> "request failed"]
    ELSE IF store[key] = NoObj THEN [nil |-> TRUE, err |-> ErrCodeNotFound]
    ELSE [nil |-> FALSE, err |-> NoErr]
\* ObjectExists with the test of the head error inverted: a stored key whose
\* head request succeeds reads as absent.
ObjectExistsInverted(key, headOk) ==
    [exists |-> ~headOk /\ store[key] # NoObj, err |-> NoErr]
\* ObjectExists passing on the error of the head request.
ObjectExistsReturnsError(key, headOk) ==
    LET r == ObjectProperties(key, headOk)
    IN  [exists |-> r.err = NoErr /\ ~r.nil, err |-> r.err]
\* ObjectExists (s3.go:383-390): both of its returns carry a nil error.
ObjectExists(key, headOk) ==
    LET r == ObjectProperties(key, headOk)
    IN  IF r.err # NoErr \/ r.nil
        THEN [exists |-> FALSE, err |-> NoErr]
        ELSE [exists |-> TRUE, err |-> NoErr]
\* Whether a store request goes through; a failed one uses up a fault.
Request(ok) ==
    /\ ok \in BOOLEAN
    /\ ~ok => faults < MaxFaults
    /\ faults' = IF ok THEN faults ELSE faults + 1

\* ---------------------------------------------------------------- runPut (Save)
\* runPut writing the archive to a local file as well before it uploads.
runPutCheckZipFile(j) ==
    /\ putPc[j] = "idle"
    /\ \E headOk \in BOOLEAN :
      LET artifacts == action.artifacts
          compression == action.compression
      IN
        /\ IF Len(artifacts) = 0 \/ artifacts[1] = ""
           THEN /\ putRes' = [putRes EXCEPT ![j] = "no artifacts patterns provided"]
                /\ putPc' = [putPc EXCEPT ![j] = "done"]
                /\ UNCHANGED <<encVars, putSaw, faults>>
           ELSE /\ Request(headOk)
                /\ putSaw' = [putSaw EXCEPT ![j] =
                      [obj |-> IF store[KeyOf(compression)] = NoObj
                               THEN "absent" ELSE "present",
                       head |-> headOk,
                       after |-> \E i \in Jobs \ {j} :
                                    /\ putPc[i] = "done" /\ putRes[i] = "ok"
                                    /\ store[KeyOf(compression)].by = i]]
                /\ LET r == ObjectExists(KeyOf(compression), headOk) IN
                   IF r.err # NoErr
                   THEN /\ putRes' = [putRes EXCEPT
                              ![j] = "failed to check if object exists"]
                        /\ putPc' = [putPc EXCEPT ![j] = "done"]
                        /\ UNCHANGED encVars
                   ELSE IF r.exists
                   THEN /\ putRes' = [putRes EXCEPT ![j] = "ok"]
                        /\ putPc' = [putPc EXCEPT ![j] = "done"]
                        /\ UNCHANGED encVars
                   ELSE /\ ZipStream(j, artifacts, compression)
                        /\ putPc' = [putPc EXCEPT ![j] = "upload"]
                        /\ UNCHANGED putRes
    /\ disk' = IF putPc'[j] = "upload"
               THEN [disk EXCEPT ![KeyOf(action.compression)] =
                        Zip(action.artifacts, action.compression, fs).bytes]
               ELSE disk
    /\ UNCHANGED <<action, fs, store, clock, uploadErr, uploaded, overwritten>>
    /\ UNCHANGED <<callerVars, getVars, delVars>>
    /\ UNCHANGED <<xferVars, procVars, testVars>>

\* runPut without the test of the patterns.
runPutCheckAnyPatterns(j) ==
    /\ putPc[j] = "idle"
    /\ \E headOk \in BOOLEAN :
      LET artifacts == action.artifacts
          compression == action.compression
      IN
        /\ IF FALSE
           THEN /\ putRes' = [putRes EXCEPT ![j] = "no artifacts patterns provided"]
                /\ putPc' = [putPc EXCEPT ![j] = "done"]
                /\ UNCHANGED <<encVars, putSaw, faults>>
           ELSE /\ Request(headOk)
                /\ putSaw' = [putSaw EXCEPT ![j] =
                      [obj |-> IF store[KeyOf(compression)] = NoObj
                               THEN "absent" ELSE "present",
                       head |-> headOk,
                       after |-> \E i \in Jobs \ {j} :
                                    /\ putPc[i] = "done" /\ putRes[i] = "ok"
                                    /\ store[KeyOf(compression)].by = i]]
                /\ LET r == ObjectExists(KeyOf(compression), headOk) IN
                   IF r.err # NoErr
                   THEN /\ putRes' = [putRes EXCEPT
                              ![j] = "failed to check if object exists"]
                        /\ putPc' = [putPc EXCEPT ![j] = "done"]
                        /\ UNCHANGED encVars
                   ELSE IF r.exists
                   THEN /\ putRes' = [putRes EXCEPT ![j] = "ok"]
                        /\ putPc' = [putPc EXCEPT ![j] = "done"]
                        /\ UNCHANGED encVars
                   ELSE /\ ZipStream(j, artifacts, compression)
                        /\ putPc' = [putPc EXCEPT ![j] = "upload"]
                        /\ UNCHANGED putRes
    /\ UNCHANGED <<action, fs, disk, store, clock, uploadErr, uploaded, overwritten>>
    /\ UNCHANGED <<callerVars, getVars, delVars>>
    /\ UNCHANGED <<xferVars, procVars, testVars>>

\* runPut up to the call of StreamUpload (archive_test.go:676-695): validate the
\* patterns, check for the key, return on a hit, start the encoder on a miss.
runPutCheck(j) ==
    /\ putPc[j] = "idle"
    /\ \E headOk \in BOOLEAN :
      LET artifacts == action.artifacts
          compression == action.compression
      IN
        /\ IF Len(artifacts) = 0 \/ artifacts[1] = ""
           THEN /\ putRes' = [putRes EXCEPT ![j] = "no artifacts patterns provided"]
                /\ putPc' = [putPc EXCEPT ![j] = "done"]
                /\ UNCHANGED <<encVars, putSaw, faults>>
           ELSE /\ Request(headOk)
                /\ putSaw' = [putSaw EXCEPT ![j] =
                      [obj |-> IF store[KeyOf(compression)] = NoObj
                               THEN "absent" ELSE "present",
                       head |-> headOk,
                       after |-> \E i \in Jobs \ {j} :
                                    /\ putPc[i] = "done" /\ putRes[i] = "ok"
                                    /\ store[KeyOf(compression)].by = i]]
                /\ LET r == ObjectExists(KeyOf(compression), headOk) IN
                   IF r.err # NoErr
                   THEN /\ putRes' = [putRes EXCEPT
                              ![j] = "failed to check if object exists"]
                        /\ putPc' = [putPc EXCEPT ![j] = "done"]
                        /\ UNCHANGED encVars
                   ELSE IF r.exists
                   THEN /\ putRes' = [putRes EXCEPT ![j] = "ok"]
                        /\ putPc' = [putPc EXCEPT ![j] = "done"]
                        /\ UNCHANGED encVars
                   ELSE /\ ZipStream(j, artifacts, compression)
                        /\ putPc' = [putPc EXCEPT ![j] = "upload"]
                        /\ UNCHANGED putRes
    /\ UNCHANGED <<action, fs, disk, store, clock, uploadErr, uploaded, overwritten>>
    /\ UNCHANGED <<callerVars, getVars, delVars>>
    /\ UNCHANGED <<xferVars, procVars, testVars>>

\* StreamUpload at the end of the body (s3.go:267-284): the upload manager read
\* the pipe to its end.  On io.EOF it stores what it read as the object; on a
\* read error it aborts the upload.
StreamUploadEnd(j) ==
    /\ putPc[j] = "upload"
    /\ pw[j] # "open"
    /\ IF pw[j] = "closed"
       THEN /\ store' = [store EXCEPT ![KeyOf(action.compression)] =
                    [bytes |-> body[j], by |-> j, mtime |-> clock + 1]]
            /\ clock' = clock + 1
            /\ uploaded' = [uploaded EXCEPT ![j] = @ + 1]
            /\ overwritten' = (overwritten \/ store[KeyOf(action.compression)] # NoObj)
            /\ UNCHANGED uploadErr
       ELSE /\ uploadErr' = [uploadErr EXCEPT ![j] = "read error"]
            /\ UNCHANGED <<store, clock, uploaded, overwritten>>
    /\ putPc' = [putPc EXCEPT ![j] = "uploaded"]
    /\ UNCHANGED <<action, fs, disk, faults, encVars, putRes, putSaw>>
    /\ UNCHANGED <<callerVars, getVars, delVars>>
    /\ UNCHANGED <<xferVars, procVars, testVars>>

\* StreamUpload failing (s3.go:246-249, 273-275): no client, or a part or the
\* final request fails; the manager aborts and nothing becomes visible.
StreamUploadFail(j) ==
    /\ putPc[j] = "upload"
    /\ faults < MaxFaults
    /\ faults' = faults + 1
    /\ uploadErr' = [uploadErr EXCEPT ![j] = "transfer error"]
    /\ putPc' = [putPc EXCEPT ![j] = "uploaded"]
    /\ UNCHANGED <<action, fs, disk, store, clock, encVars, putRes, putSaw, uploaded, overwritten>>
    /\ UNCHANGED <<callerVars, getVars, delVars>>
    /\ UNCHANGED <<xferVars, procVars, testVars>>

\* runPut going on to the receive without closing the reader.
runPutNoClose(j) ==
    /\ putPc[j] = "uploaded"
    /\ putPc' = [putPc EXCEPT ![j] = "recv"]
    /\ UNCHANGED <<envVars, encVars, uploadErr, putRes, putSaw, uploaded, overwritten>>
    /\ UNCHANGED <<callerVars, getVars, delVars>>
    /\ UNCHANGED <<xferVars, procVars, testVars>>

\* if uploadErr != nil { reader.Close() } (archive_test.go:698-700).
runPutClose(j) ==
    /\ putPc[j] = "uploaded"
    /\ pr' = [pr EXCEPT ![j] = IF uploadErr[j] # NoErr THEN "closed" ELSE @]
    /\ putPc' = [putPc EXCEPT ![j] = "recv"]
    /\ UNCHANGED <<envVars, encPc, encMode, encPats, encPaths, encErr, errChan,
                   errClosed, sent, pw, body, archived>>
    /\ UNCHANGED <<uploadErr, putRes, putSaw, uploaded, overwritten>>
    /\ UNCHANGED <<callerVars, getVars, delVars>>
    /\ UNCHANGED <<xferVars, procVars, testVars>>

\* runPut's result with the encoder's error dropped.
putResultUploadOnly(compressErr, upErr) ==
    IF upErr # NoErr THEN "failed to upload cache" ELSE "ok"
\* What runPut returns once it has both results (archive_test.go:702-710).
putResult(compressErr, upErr) ==
    IF compressErr # NoErr THEN "failed to compress artifacts"
    ELSE IF upErr # NoErr THEN "failed to upload cache"
    ELSE "ok"
\* A receive on errChan is possible once it holds a value or is closed; a
\* closed, empty channel yields nil.
CanRecv(e) == errChan[e] # <<>> \/ errClosed[e]
Recv(e) == IF errChan[e] # <<>> THEN Head(errChan[e]) ELSE NoErr
\* compressErr := <-errChan and the return (archive_test.go:702-710).
runPutRecv(j) ==
    /\ putPc[j] = "recv"
    /\ CanRecv(j)
    /\ putRes' = [putRes EXCEPT ![j] = putResult(Recv(j), uploadErr[j])]
    /\ errChan' = [errChan EXCEPT ![j] = IF @ # <<>> THEN Tail(@) ELSE @]
    /\ putPc' = [putPc EXCEPT ![j] = "done"]
    /\ UNCHANGED <<envVars, encPc, encMode, encPats, encPaths, encErr, errClosed,
                   sent, pw, pr, body, archived>>
    /\ UNCHANGED <<uploadErr, putSaw, uploaded, overwritten>>
    /\ UNCHANGED <<callerVars, getVars, delVars>>
    /\ UNCHANGED <<xferVars, procVars, testVars>>

runPut(j) ==
    \/ runPutCheck(j) \/ StreamUploadEnd(j) \/ StreamUploadFail(j)
    \/ runPutClose(j) \/ runPutRecv(j)

\* ---------------------------------------------------------------- a direct caller
\* A caller of ZipStream that drains the reader and receives from errChan, in
\* one order or the other (the tests drain first: archive_test.go:409-419).
Orders == {"drain first", "signal first"}
CallerStart ==
    /\ callerPc = "idle"
    /\ \E order \in Orders :
        /\ ZipStream(Tester, action.artifacts, action.compression)
        /\ callerOrder' = order
        /\ callerPc' = IF order = "drain first" THEN "drain" ELSE "recv"
    /\ UNCHANGED <<envVars, callerSig, putVars, getVars, delVars>>
    /\ UNCHANGED <<xferVars, procVars, testVars>>

\* io.ReadAll returns at the end of the stream; reader.Close() follows.
CallerEOF ==
    /\ callerPc = "drain"
    /\ pw[Tester] # "open"
    /\ pr' = [pr EXCEPT ![Tester] = "closed"]
    /\ callerPc' = IF callerOrder = "drain first" THEN "recv" ELSE "done"
    /\ UNCHANGED <<envVars, encPc, encMode, encPats, encPaths, encErr, errChan,
                   errClosed, sent, pw, body, archived>>
    /\ UNCHANGED <<callerOrder, callerSig, putVars, getVars, delVars>>
    /\ UNCHANGED <<xferVars, procVars, testVars>>

\* compressErr := <-errChan.
CallerRecv ==
    /\ callerPc = "recv"
    /\ CanRecv(Tester)
    /\ callerSig' = Recv(Tester)
    /\ errChan' = [errChan EXCEPT ![Tester] = IF @ # <<>> THEN Tail(@) ELSE @]
    /\ callerPc' = IF callerOrder = "drain first" THEN "done" ELSE "drain"
    /\ UNCHANGED <<envVars, encPc, encMode, encPats, encPaths, encErr, errClosed,
                   sent, pw, pr, body, archived>>
    /\ UNCHANGED <<callerOrder, putVars, getVars, delVars>>
    /\ UNCHANGED <<xferVars, procVars, testVars>>

\* The archive file of a direct caller, named after the compression mode.
ArchiveFile == KeyOf(action.compression)
\* A caller of the buffered encoder: Zip(archivePath, patterns, compression)
\* writes the archive file and returns (archive_test.go:283-296 and 518-521).
\* The archive file lies outside the tree the patterns range over.
CallerZip ==
    /\ callerPc = "idle"
    /\ LET z == Zip(action.artifacts, action.compression, fs)
       IN  /\ disk' = [disk EXCEPT ![ArchiveFile] = z.bytes]
           /\ callerSig' = z.err
           /\ callerPc' = IF z.err = NoErr THEN "zipped" ELSE "failed"
    /\ callerOrder' = "buffered"
    /\ UNCHANGED <<action, fs, store, clock, faults>>
    /\ UNCHANGED <<encVars, putVars, getVars, delVars>>
    /\ UNCHANGED <<xferVars, procVars, testVars>>

\* The caller of ZipStream that got the whole stream and no error writes the
\* stream to the archive file: os.WriteFile(archivePath, data, 0644)
\* (archive_test.go:598-608).
CallerWriteFile ==
    /\ callerPc = "done"
    /\ callerSig = NoErr
    /\ disk' = [disk EXCEPT ![ArchiveFile] = body[Tester]]
    /\ callerPc' = "zipped"
    /\ UNCHANGED <<action, fs, store, clock, faults>>
    /\ UNCHANGED <<callerOrder, callerSig, encVars, putVars, getVars, delVars>>
    /\ UNCHANGED <<xferVars, procVars, testVars>>

\* The caller decodes the archive file in a directory of its own, which
\* starts empty: Unzip("../" + archivePath, compression) after os.Chdir(extractDir)
\* (archive_test.go:298-312).
CallerUnzip ==
    /\ callerPc = "zipped"
    /\ LET r == Unzip(disk[ArchiveFile], action.compression, extractDir, umask)
       IN  /\ extractDir' = r.fs
           /\ unzipErr' = r.err
    /\ callerPc' = "unzipped"
    /\ UNCHANGED <<envVars, callerOrder, callerSig, encVars, putVars, getVars, delVars>>
    /\ UNCHANGED <<xferVars, procVars>>

\* ---------------------------------------------------------------- runGet (Restore)
\* The keys stored under the default-key prefix, in the store's listing order.
Listed == InOrder(KeyOrder, {k \in Keys : store[k] # NoObj})
\* What one ListObjectsV2 response can hold (s3.go:157-165): the keys from the
\* first on, all of them or, when the response is truncated, only some.  The
\* store returns at most one page per request and GetLatestObject makes one
\* request: it never asks for the continuation.
Pages == {SubSeq(Listed, 1, n) : n \in (IF Listed = <<>> THEN {0} ELSE 1..Len(Listed))}
Range(files) == {files[i] : i \in 1..Len(files)}
\* GetLatestObject: the key of the response with the latest LastModified
\* (s3.go:165-185).
GetLatestObject(files) ==
    CHOOSE k \in Range(files) : \A o \in Range(files) : store[k].mtime >= store[o].mtime

\* runGet going to the fallback without looking for the key.
runGetCheckFallbackOnly ==
    /\ getPc = "idle"
    /\ getMode' = action.compression
    /\ getPc' = "latest"
    /\ UNCHANGED <<envVars, getFile, getRes, getPre>>
    /\ UNCHANGED <<encVars, putVars, callerVars, delVars>>
    /\ UNCHANGED <<xferVars, procVars, testVars>>

\* runGet, the existence check (archive_test.go:713-726), for the key and
\* the compression mode of its action.
runGetCheck ==
    /\ getPc = "idle"
    /\ \E headOk \in BOOLEAN :
        LET compression == action.compression
            r == ObjectExists(KeyOf(compression), headOk)
        IN  /\ Request(headOk)
            /\ getMode' = compression
            /\ IF r.err # NoErr
               THEN /\ getRes' = "failed to check if object exists"
                    /\ getPc' = "done"
                    /\ UNCHANGED getFile
               ELSE IF r.exists
               THEN /\ getFile' = KeyOf(compression)
                    /\ getPc' = "download"
                    /\ UNCHANGED getRes
               ELSE /\ getPc' = "latest"
                    /\ UNCHANGED <<getFile, getRes>>
    /\ UNCHANGED <<action, fs, disk, store, clock, getPre>>
    /\ UNCHANGED <<encVars, putVars, callerVars, delVars>>
    /\ UNCHANGED <<xferVars, procVars, testVars>>

\* runGet returning the error of GetLatestObject instead of dropping it.
runGetLatestHardMiss ==
    /\ getPc = "latest"
    /\ \E listOk \in BOOLEAN, files \in Pages :
        /\ Request(listOk)
        /\ IF listOk /\ Len(files) >= 1
           THEN /\ getFile' = GetLatestObject(files)
                /\ getPc' = "download"
                /\ UNCHANGED getRes
           ELSE /\ getRes' = "no cache found"
                /\ getPc' = "done"
                /\ UNCHANGED getFile
    /\ UNCHANGED <<action, fs, disk, store, clock, getMode, getPre>>
    /\ UNCHANGED <<encVars, putVars, callerVars, delVars>>
    /\ UNCHANGED <<xferVars, procVars, testVars>>

\* runGet, the fallback (archive_test.go:727-733): a failed or empty listing
\* ends the call with success.
runGetLatest ==
    /\ getPc = "latest"
    /\ \E listOk \in BOOLEAN, files \in Pages :
        /\ Request(listOk)
        /\ IF listOk /\ Len(files) >= 1
           THEN /\ getFile' = GetLatestObject(files)
                /\ getPc' = "download"
                /\ UNCHANGED getRes
           ELSE /\ getRes' = "ok"
                /\ getPc' = "done"
                /\ UNCHANGED getFile
    /\ UNCHANGED <<action, fs, disk, store, clock, getMode, getPre>>
    /\ UNCHANGED <<encVars, putVars, callerVars, delVars>>
    /\ UNCHANGED <<xferVars, procVars, testVars>>

\* GetObject removing the object it has downloaded from the store.
GetObjectMove ==
    /\ getPc = "download"
    /\ \E outcome \in {"sent", "no client", "transfer error"} :
        /\ Request(outcome = "sent")
        /\ IF outcome = "sent" /\ store[getFile] # NoObj
           THEN /\ disk' = [disk EXCEPT ![getFile] = store[getFile].bytes]
                /\ getPc' = "unzip"
                /\ UNCHANGED getRes
           ELSE /\ disk' = IF outcome = "no client" THEN disk
                           ELSE [disk EXCEPT ![getFile] = <<>>]
                /\ getRes' = "failed to download cache"
                /\ getPc' = "done"
    /\ store' = IF getPc' = "unzip" THEN [store EXCEPT ![getFile] = NoObj] ELSE store
    /\ UNCHANGED <<action, fs, clock, getMode, getFile, getPre>>
    /\ UNCHANGED <<encVars, putVars, callerVars, delVars>>
    /\ UNCHANGED <<xferVars, procVars, testVars>>

\* GetObject (s3.go:289-335): get the client, create the local file, then
\* download into it.  Without a client it returns before the file is created;
\* a download that fails, or finds no object, returns after.
GetObject ==
    /\ getPc = "download"
    /\ \E outcome \in {"sent", "no client", "transfer error"} :
        /\ Request(outcome = "sent")
        /\ IF outcome = "sent" /\ store[getFile] # NoObj
           THEN /\ disk' = [disk EXCEPT ![getFile] = store[getFile].bytes]
                /\ getPc' = "unzip"
                /\ UNCHANGED getRes
           ELSE /\ disk' = IF outcome = "no client" THEN disk
                           ELSE [disk EXCEPT ![getFile] = <<>>]
                /\ getRes' = "failed to download cache"
                /\ getPc' = "done"
    /\ UNCHANGED <<action, fs, store, clock, getMode, getFile, getPre>>
    /\ UNCHANGED <<encVars, putVars, callerVars, delVars>>
    /\ UNCHANGED <<xferVars, procVars, testVars>>

\* runGet decoding by the extension of the key it selected.
runGetUnzipByExtension ==
    /\ getPc = "unzip"
    /\ LET r == Unzip(disk[getFile], modeOf(getFile), fs, umask)
       IN  /\ fs' = r.fs
           /\ getRes' = IF r.err = NoErr THEN "ok" ELSE "failed to unzip cache"
    /\ getPre' = fs
    /\ getPc' = "done"
    /\ UNCHANGED <<action, disk, store, clock, faults, getMode, getFile>>
    /\ UNCHANGED <<encVars, putVars, callerVars, delVars>>
    /\ UNCHANGED <<xferVars, procVars, testVars>>

\* Unzip of the downloaded file and the return (archive_test.go:739-743).
runGetUnzip ==
    /\ getPc = "unzip"
    /\ LET r == Unzip(disk[getFile], getMode, fs, umask)
       IN  /\ fs' = r.fs
           /\ getRes' = IF r.err = NoErr THEN "ok" ELSE "failed to unzip cache"
    /\ getPre' = fs
    /\ getPc' = "done"
    /\ UNCHANGED <<action, disk, store, clock, faults, getMode, getFile>>
    /\ UNCHANGED <<encVars, putVars, callerVars, delVars>>
    /\ UNCHANGED <<xferVars, procVars, testVars>>

runGet == runGetCheck \/ runGetLatest \/ GetObject \/ runGetUnzip

\* ---------------------------------------------------------------- runDelete (Evict)
\* DeleteObject up to the head request (s3.go:338-348), for the key of the
\* action: the error of the head request is returned.
DeleteObjectHead ==
    /\ delPc = "idle"
    /\ \E headOk \in BOOLEAN :
        LET objProps == ObjectProperties(KeyOf(action.compression), headOk)
        IN  /\ Request(headOk)
            /\ delKey' = KeyOf(action.compression)
            /\ IF objProps.err = NoErr /\ ~objProps.nil
               THEN /\ delPc' = "delete"
                    /\ UNCHANGED delRes
               ELSE /\ delRes' = "failed to delete cache"
                    /\ delPc' = "done"
    /\ UNCHANGED <<action, fs, disk, store, clock>>
    /\ UNCHANGED <<encVars, putVars, callerVars, getVars>>
    /\ UNCHANGED <<xferVars, procVars, testVars>>

\* DeleteObject returning success without having sent the delete request.
DeleteObjectNotSent ==
    /\ delPc = "delete"
    /\ delRes' = "ok"
    /\ delPc' = "done"
    /\ UNCHANGED <<envVars, delKey>>
    /\ UNCHANGED <<encVars, putVars, callerVars, getVars>>
    /\ UNCHANGED <<xferVars, procVars, testVars>>

\* The delete request and the return (s3.go:350-364).
DeleteObject ==
    /\ delPc = "delete"
    /\ \E delOk \in BOOLEAN :
        /\ Request(delOk)
        /\ store' = [store EXCEPT ![delKey] = IF delOk THEN NoObj ELSE @]
        /\ delRes' = IF delOk THEN "ok" ELSE "failed to delete cache"
    /\ delPc' = "done"
    /\ UNCHANGED <<action, fs, disk, clock, delKey>>
    /\ UNCHANGED <<encVars, putVars, callerVars, getVars>>
    /\ UNCHANGED <<xferVars, procVars, testVars>>

runDelete == DeleteObjectHead \/ DeleteObject

\* ---------------------------------------------------------------- part-size resolution
\* Each transfer call resolves its part size from the TransferConfig before it
\* builds the uploader or downloader.
\* PutObject: partSize := tc.resolveUploadPartSize(fileSize) and
\* concurrency := tc.uploadConcurrency() (s3.go:202-209).
PutObjectPartSize ==
    /\ xfer' = [call |-> "PutObject",
                partSize |-> resolveUploadPartSize(tc, fileSize),
                concurrency |-> uploadConcurrency(tc)]
    /\ UNCHANGED <<tc, fileSize>>
    /\ UNCHANGED <<envVars, encVars, putVars, callerVars, getVars, delVars>>
    /\ UNCHANGED <<procVars, testVars>>
\* StreamUpload: partSize := tc.resolveStreamUploadPartSize() and
\* concurrency := tc.uploadConcurrency() (s3.go:251-252).
StreamUploadPartSize ==
    /\ xfer' = [call |-> "StreamUpload",
                partSize |-> resolveStreamUploadPartSize(tc),
                concurrency |-> uploadConcurrency(tc)]
    /\ UNCHANGED <<tc, fileSize>>
    /\ UNCHANGED <<envVars, encVars, putVars, callerVars, getVars, delVars>>
    /\ UNCHANGED <<procVars, testVars>>
\* GetObject: partSize := tc.downloadPartSize() and
\* concurrency := tc.downloadConcurrency() (s3.go:302-303).
GetObjectPartSize ==
    /\ xfer' = [call |-> "GetObject",
                partSize |-> downloadPartSize(tc),
                concurrency |-> downloadConcurrency(tc)]
    /\ UNCHANGED <<tc, fileSize>>
    /\ UNCHANGED <<envVars, encVars, putVars, callerVars, getVars, delVars>>
    /\ UNCHANGED <<procVars, testVars>>

\* ---------------------------------------------------------------- main
PutAction == "put"
DeleteAction == "delete"
GetAction == "get"

\* The environment is a record of the variables main reads; ACTION is a
\* reserved word of TLA+, so its field is ACTION_.
\* The value of ARTIFACTS is held as the sequence of its lines; <<>> is the
\* empty text.  strings.TrimSpace drops the blank lines at its two ends.
RECURSIVE TrimSpace(_)
TrimSpace(lines) ==
    IF lines = <<>> THEN <<>>
    ELSE IF Head(lines) = "" THEN TrimSpace(Tail(lines))
    ELSE IF lines[Len(lines)] = "" THEN TrimSpace(SubSeq(lines, 1, Len(lines) - 1))
    ELSE lines
\* strings.Split(text, "\n"): the lines; of the empty text, one empty string.
Split(lines) == IF lines = <<>> THEN <<"">> ELSE lines

\* Action{}: the zero value ParseAction returns with an error.
ZeroAction ==
    [Action |-> "", Bucket |-> "", Key |-> <<"", "">>, artifacts |-> <<>>,
     compression |-> "",
     UploadConcurrency |-> 0, DownloadConcurrency |-> 0,
     UploadPartSize |-> 0, DownloadPartSize |-> 0]
\* ParseAction accepting whatever COMPRESSION holds.
ParseActionAnyMode(e) ==
    LET compression == IF e.COMPRESSION = "" THEN CompressionZstd ELSE e.COMPRESSION
    IN  [action |-> [ZeroAction EXCEPT
                        !.Action = e.ACTION_, !.Bucket = e.BUCKET,
                        !.Key = <<e.KEY, keyExtension(compression)>>,
                        !.artifacts = Split(TrimSpace(e.ARTIFACTS)),
                        !.compression = compression],
         err |-> NoErr]
\* ParseAction (part_003:120-146) on the environment e.  The key is KEY
\* followed by the extension, held as the pair of the two.  The transfer
\* settings are unset in the environments exercised and parse to 0.
ParseAction(e) ==
    LET compression == IF e.COMPRESSION = "" THEN CompressionZstd ELSE e.COMPRESSION
    IN  IF compression # CompressionZstd /\ compression # CompressionNone
        THEN [action |-> ZeroAction, err |-> "invalid compression mode"]
        ELSE [action |-> [ZeroAction EXCEPT
                            !.Action = e.ACTION_, !.Bucket = e.BUCKET,
                            !.Key = <<e.KEY, keyExtension(compression)>>,
                            !.artifacts = Split(TrimSpace(e.ARTIFACTS)),
                            !.compression = compression],
              err |-> NoErr]
\* Action.TransferConfig (part_004:44-51).
TransferConfig(a) ==
    [UploadConcurrency |-> a.UploadConcurrency,
     DownloadConcurrency |-> a.DownloadConcurrency,
     UploadPartSize |-> a.UploadPartSize,
     DownloadPartSize |-> a.DownloadPartSize]

\* main up to the switch, and the default case of the switch
\* (archive_test.go:637-654, 670-673): an invalid configuration and an
\* unknown verb end the process with status 1.
mainStart ==
    /\ mainPc = "start"
    /\ LET parsed == ParseAction(env)
       IN  IF parsed.err # NoErr
           THEN /\ mainPc' = "exited"
                /\ exitCode' = 1
                /\ UNCHANGED <<action, tc>>
           ELSE /\ action' = parsed.action
                /\ tc' = TransferConfig(parsed.action)
                /\ IF parsed.action.Action \in {PutAction, GetAction, DeleteAction}
                   THEN /\ mainPc' = "verb"
                        /\ UNCHANGED exitCode
                   ELSE /\ mainPc' = "exited"
                        /\ exitCode' = 1
    /\ UNCHANGED <<fs, disk, store, clock, faults, fileSize, xfer, env, umask>>
    /\ UNCHANGED <<encVars, putVars, callerVars, getVars, delVars, testVars>>

\* What the verb main called has returned, once it has returned.
Running(verb) == mainPc = "verb" /\ action.Action = verb
verbDone ==
    \/ Running(PutAction) /\ putPc["job1"] = "done"
    \/ Running(GetAction) /\ getPc = "done"
    \/ Running(DeleteAction) /\ delPc = "done"
verbErr ==
    LET res == IF action.Action = PutAction THEN putRes["job1"]
               ELSE IF action.Action = GetAction THEN getRes
               ELSE delRes
    IN  IF res = "ok" THEN NoErr ELSE res

\* main ending with status 0 whatever the verb returned.
mainExitZero ==
    /\ verbDone
    /\ mainPc' = "exited"
    /\ exitCode' = 0
    /\ UNCHANGED <<envVars, env, umask>>
    /\ UNCHANGED <<encVars, putVars, callerVars, getVars, delVars, xferVars, testVars>>

\* The cases of the switch after the verb has returned
\* (archive_test.go:655-669): os.Exit(1) on an error, else main returns.
mainExit ==
    /\ verbDone
    /\ mainPc' = "exited"
    /\ exitCode' = IF verbErr # NoErr THEN 1 ELSE 0
    /\ UNCHANGED <<envVars, env, umask>>
    /\ UNCHANGED <<encVars, putVars, callerVars, getVars, delVars, xferVars, testVars>>

\* The verb main called, and the goroutine it started, taking their steps.
mainPut ==
    /\ Running(PutAction)
    /\ runPut("job1") \/ Encoder("job1") \/ EncFault("job1")
mainGet == Running(GetAction) /\ runGet
mainDelete == Running(DeleteAction) /\ runDelete

\* ---------------------------------------------------------------- environment
\* A fresh runner: the working tree no longer holds the cached files.
Clean ==
    /\ fs # EmptyTree
    /\ fs' = EmptyTree
    /\ UNCHANGED <<action, disk, store, clock, faults>>
    /\ UNCHANGED <<encVars, putVars, callerVars, getVars, delVars>>
    /\ UNCHANGED <<xferVars, procVars, testVars>>

\* ---------------------------------------------------------------- specifications
\* Jobs saving under the same settings.
SaveNext == \E j \in Jobs : runPut(j) \/ Encoder(j) \/ EncFault(j)
\* The same while the key may be evicted.
Next == SaveNext \/ runDelete

\* One job saving, then a restore on a runner whose tree may have been cleaned.
RestoreNext ==
    \/ runPut("job1") \/ Encoder("job1") \/ EncFault("job1")
    \/ runGet
    \/ Clean
RestoreSpec == Init /\ [][RestoreNext]_vars
SaveInit == Init /\ fs = FullTree
Spec == SaveInit /\ [][Next]_vars
\* The Go scheduler runs every goroutine that can take a step: the calling
\* goroutine of a started runPut and the producer goroutine.  No store
\* request is bound to fail and no job is bound to start.  runDelete takes no
\* part: runPut reads the store only in its existence check.
runPutStep(j) == StreamUploadEnd(j) \/ runPutClose(j) \/ runPutRecv(j)
FairSpec ==
    /\ SaveInit /\ [][SaveNext]_vars
    /\ \A j \in Jobs : WF_vars(runPutStep(j)) /\ WF_vars(Encoder(j))

\* A restore, an eviction and a save against a bucket earlier runs have used.
CacheNext ==
    \/ runGet
    \/ runDelete
    \/ runPut("job1") \/ Encoder("job1") \/ EncFault("job1")
CacheSpec == CacheInit /\ [][CacheNext]_vars

\* The transfer calls resolving part sizes, for the settings and file sizes
\* of TransferInit.
TransferInit ==
    /\ action = [artifacts |-> <<"*">>, compression |-> CompressionZstd]
    /\ fs = FullTree
    /\ store = [k \in Keys |-> NoObj]
    /\ clock = 0
    /\ Idle
    /\ tc \in [UploadConcurrency : {0}, DownloadConcurrency : {0},
                UploadPartSize : PartSizes, DownloadPartSize : PartSizes]
    /\ fileSize \in FileSizes
    /\ xfer = NoTransfer
    /\ NoMain
    /\ NoTest
TransferNext == PutObjectPartSize \/ StreamUploadPartSize \/ GetObjectPartSize
TransferSpec == TransferInit /\ [][TransferNext]_vars
\* The same calls resolving their concurrency, for the settings of
\* ConcurrencyInit.
ConcurrencyInit ==
    /\ action = [artifacts |-> <<"*">>, compression |-> CompressionZstd]
    /\ fs = FullTree
    /\ store = [k \in Keys |-> NoObj]
    /\ clock = 0
    /\ Idle
    /\ tc \in [UploadConcurrency : Concurrencies, DownloadConcurrency : Concurrencies,
                UploadPartSize : {0}, DownloadPartSize : {0}]
    /\ fileSize = Bytes(100, 0)
    /\ xfer = NoTransfer
    /\ NoMain
    /\ NoTest
ConcurrencySpec == ConcurrencyInit /\ [][TransferNext]_vars

\* A direct caller encoding a tree with either encoder and decoding the
\* archive in an empty directory, for trees whose files have the modes of
\* FilePerms and processes with the masks of Umasks.  No read fails.
FilePerms == {\o644, \o664, \o755}
Umasks == {\o022, \o002, \o077}
PermTrees ==
    {t \in [Paths -> Nodes \cup {FileMode(c, m) : c \in 1..MaxData, m \in FilePerms}] :
        /\ t["b"].type # "dir"
        /\ t["d"].type # "reg"
        /\ t["d/a"].type \in {"none", "reg"}
        /\ t["d/a"].type = "reg" => t["d"].type = "dir"}
ArchiveInit ==
    /\ action \in Actions
    /\ fs \in PermTrees
    /\ store = [k \in Keys |-> NoObj]
    /\ clock = 0
    /\ Idle
    /\ Defaults
    /\ env = NoEnv
    /\ umask \in Umasks
    /\ mainPc = "off"
    /\ exitCode = NoExit
    /\ NoTest
ArchiveNext ==
    \/ CallerZip
    \/ CallerStart \/ CallerEOF \/ CallerRecv \/ Encoder(Tester)
    \/ CallerWriteFile
    \/ CallerUnzip
ArchiveSpec == ArchiveInit /\ [][ArchiveNext]_vars

\* The same caller over trees in which "b" may be a symbolic link, to a
\* file, to a directory or to nothing, and files may be empty.
LinkTrees ==
    {t \in [Paths -> Nodes \cup {File(0)} \cup {Link(i) : i \in 0..Len(PathOrder)}] :
        /\ t["b"].type # "dir"
        /\ t["b"].type = "link" => t["b"].data # 1      \* not a link to itself
        /\ t["d"].type \in {"none", "dir"}
        /\ t["d/a"].type \in {"none", "reg"}
        /\ t["d/a"].type = "reg" => t["d"].type = "dir"}
LinkInit ==
    /\ action \in Actions
    /\ fs \in LinkTrees
    /\ store = [k \in Keys |-> NoObj]
    /\ clock = 0
    /\ Idle
    /\ Defaults
    /\ NoMain
    /\ NoTest
LinkSpec == LinkInit /\ [][ArchiveNext]_vars

\* One process: main reading its environment, calling the verb and exiting,
\* against a bucket earlier runs have used.  KEY and DEFAULT_KEY are set in
\* every environment; ACTION, BUCKET, COMPRESSION and ARTIFACTS may be
\* missing or wrong.
ArtifactTexts == {<<>>, <<"*">>, <<"", "*", "">>, <<"b", BadPattern>>, <<"nomatch">>}
Envs ==
    [ACTION_ : {PutAction, GetAction, DeleteAction, "", "list"},
     BUCKET : {"", "bucket"},
     KEY : {Base},
     COMPRESSION : {"", CompressionZstd, CompressionNone, "gzip"},
     ARTIFACTS : ArtifactTexts]
MainInit ==
    /\ env \in Envs
    /\ action = ZeroAction
    /\ fs = FullTree
    /\ \E tm \in SaveTimes :
          /\ store = [k \in Keys |-> IF tm[k] = 0 THEN NoObj ELSE SavedAt(k, tm[k])]
          /\ clock = Cardinality({k \in Keys : tm[k] # 0})
    /\ Idle
    /\ Defaults
    /\ umask = \o022
    /\ mainPc = "start"
    /\ exitCode = NoExit
    /\ NoTest
MainNext == mainStart \/ mainPut \/ mainGet \/ mainDelete \/ mainExit
MainSpec == MainInit /\ [][MainNext]_vars

\* ZipStream under a direct caller.
StreamNext ==
    CallerStart \/ CallerEOF \/ CallerRecv \/ Encoder(Tester) \/ EncFault(Tester)
StreamSpec == Init /\ [][StreamNext]_vars
FairStreamSpec ==
    StreamSpec /\ WF_vars(CallerEOF \/ CallerRecv) /\ WF_vars(Encoder(Tester))

\* ---------------------------------------------------------------- properties
SaveKey == KeyOf(action.compression)
Returned(j) == putPc[j] = "done"
Failed(j) == Returned(j) /\ putRes[j] # "ok"

\* C1: Save then Restore round-trips through the store.  When runGet unzips
\* the object that a successful runPut stored under a key that was absent,
\* with the same compression mode and in a tree where the archived files are
\* missing, it returns success and every archived regular file is back with
\* the body that was archived.
C1_Restoring ==
    /\ getPc = "unzip"
    /\ getMode = action.compression
    /\ getFile = SaveKey
    /\ Returned("job1") /\ putRes["job1"] = "ok"
    /\ putSaw["job1"].obj = "absent"
    /\ store[SaveKey].by = "job1"
    /\ disk[getFile] = store[SaveKey].bytes
    /\ \A p \in Paths : archived["job1"][p] # 0 => fs[p].type = "none"
C1_SaveRestoreRoundTrip ==
    [][C1_Restoring /\ getPc' = "done" =>
          /\ getRes' = "ok"
          /\ \A p \in Paths :
                archived["job1"][p] # 0 => fs'[p] = File(archived["job1"][p])]_vars
C1_Witness ==
    /\ getPc = "done" /\ getRes = "ok"
    /\ getMode = CompressionZstd /\ action.compression = CompressionZstd
    /\ putRes["job1"] = "ok" /\ putSaw["job1"].obj = "absent"
    /\ disk[getFile] = store[SaveKey].bytes
    /\ \A p \in {"b", "d/a"} :
          /\ archived["job1"][p] = (IF p = "b" THEN 1 ELSE MaxData)
          /\ getPre[p].type = "none"
          /\ fs[p] = File(archived["job1"][p])

\* C2: Save idempotence.  A runPut whose existence check finds the key
\* present, after another runPut returned success with its object still
\* stored, starts no encoder and no upload, returns success and leaves the
\* store as it was: the two calls make exactly one upload.
C2_Hit(j) == putSaw[j].after /\ putSaw[j].obj = "present" /\ putSaw[j].head
C2_SaveIdempotent ==
    \A j \in Jobs : C2_Hit(j) =>
        /\ Returned(j) /\ putRes[j] = "ok"
        /\ encPc[j] = "off"
        /\ uploaded[j] = 0
        /\ \E i \in Jobs \ {j} : uploaded[i] = 1 /\ putRes[i] = "ok"
C2_Witness ==
    \E j \in Jobs : C2_Hit(j) /\ Returned(j) /\ store[SaveKey].by # j
                    /\ store[SaveKey] # NoObj

\* C3: a runPut that returns an error, started with the key absent, leaves no
\* object of its own visible under the key.
C3_NoObjectAfterFailedSave ==
    \A j \in Jobs :
        Failed(j) /\ putSaw[j].obj = "absent" => store[SaveKey].by # j

\* C4: when the producer ends with an error, it closes its end of the pipe
\* with that error (the reader's next read fails) and publishes the error on
\* the completion channel.
C4_PipeClosedWithError ==
    \A e \in Encs :
        encPc[e] = "done" /\ encErr[e] # NoErr =>
            pw[e] = "error" /\ sent[e] = <<encErr[e]>>

\* C5: when the upload fails first and the encoder fails only because runPut
\* closed the pipe, runPut returns the upload error.
ClosedPipeErrors ==
    {"closed pipe", "failed to close tar writer", "failed to close zstd writer"}
C5_FirstErrorReturned ==
    \A j \in Jobs :
        Returned(j) /\ uploadErr[j] # NoErr /\ encErr[j] \in ClosedPipeErrors =>
            putRes[j] = "failed to upload cache"

\* C6: every started runPut returns and its producer goroutine exits, also
\* when the upload fails before, during or after the stream.
C6_SaveReturns ==
    \A j \in Jobs :
        (putPc[j] \notin {"idle", "done"}) ~> (Returned(j) /\ encPc[j] = "done")
C6_Witness ==
    \E j \in Jobs :
        /\ Returned(j) /\ encPc[j] = "done"
        /\ uploadErr[j] # NoErr
        /\ encErr[j] = "closed pipe"
        /\ body[j] # <<>>

\* C7: on a miss, runPut returns success only after the producer has exited
\* without an error and the upload has succeeded.
C7_BothObserved ==
    \A j \in Jobs :
        Returned(j) /\ putRes[j] = "ok" /\ putSaw[j].obj # "none" /\ encPc[j] # "off" =>
            /\ encPc[j] = "done" /\ errClosed[j]
            /\ encErr[j] = NoErr
            /\ uploadErr[j] = NoErr /\ uploaded[j] = 1
C7_Witness ==
    \E j \in Jobs :
        /\ Returned(j) /\ putRes[j] = "ok" /\ encPc[j] = "done"
        /\ body[j] # <<>>
        /\ \E i \in Jobs : Failed(i) /\ encErr[i] # NoErr /\ uploadErr[i] = NoErr

\* C8: a caller of ZipStream that drains the stream and receives from the
\* completion channel gets both and lets the producer exit, in either order.
CallerDone == callerPc = "done" /\ callerSig # "none" /\ encPc[Tester] = "done"
C8_EitherOrder == (callerPc # "idle") ~> CallerDone
\* C8 as amended: a caller that drains the stream first and receives afterwards.
C8_DrainFirst == (callerOrder = "drain first") ~> CallerDone
C8_Witness ==
    /\ callerOrder = "drain first" /\ CallerDone
    /\ body[Tester] # <<>>
    /\ pw[Tester] = "closed"

\* C9: the completion channel carries at most one value, nothing on success
\* and the producer's error otherwise; the send always finds room; the
\* channel is closed once the producer has exited.
C9_CompletionChannel ==
    \A e \in Encs :
        /\ Len(sent[e]) <= 1
        /\ encPc[e] = "send" => Len(errChan[e]) < ChanCap
        /\ encPc[e] \in {"deferPipe", "done"} =>
              /\ errClosed[e]
              /\ sent[e] = IF encErr[e] = NoErr THEN <<>> ELSE <<encErr[e]>>
C9_Witness ==
    \E e, f \in Encs :
        /\ encPc[e] = "done" /\ sent[e] = <<>> /\ body[e] # <<>>
        /\ encPc[f] = "done" /\ sent[f] = <<"closed pipe">>

\* C10: in every interleaving of runPut calls on one key, an object written
\* under the key is never overwritten by another runPut.  Stated for the
\* behaviours in which no request and no read failed, so that a violation is
\* due to the interleaving alone.
C10_NeverOverwritten == faults = 0 => ~overwritten

\* C11: when the requested key is stored at the time runGet looks for it,
\* runGet selects exactly that key, and it takes the fallback only when the
\* key is not stored.
Requested == KeyOf(getMode)
Newest ==
    {k \in Range(Listed) : \A o \in Range(Listed) : store[k].mtime >= store[o].mtime}
C12_FallbackIsNewest ==
    [][/\ getPc = "latest" /\ getPc' # "latest"
       /\ store[Requested] = NoObj /\ Listed # <<>>
       /\ faults' = faults
       => getPc' = "download" /\ getFile' \in Newest]_vars

\* C13: soft miss.  When nothing is stored under the prefix, the requested
\* key included, runGet returns success, downloads nothing and leaves the
\* working tree and the local files as they were.
C13_SoftMiss ==
    [][/\ getPc = "idle" /\ getPc' # "idle" => fs' = fs /\ disk' = disk
       /\ getPc = "latest" /\ getPc' # "latest" /\ Listed = <<>> =>
             /\ getPc' = "done" /\ getRes' = "ok"
             /\ fs' = fs /\ disk' = disk /\ store' = store]_vars
C13_Witness ==
    /\ getPc = "done" /\ getRes = "ok"
    /\ Listed = <<>>
    /\ disk = [k \in Keys |-> NoFile]
    /\ fs = FullTree

\* C14: runGet never returns an error because the object it selected is gone
\* when it is downloaded, whatever runDelete does meanwhile (stated for the
\* behaviours in which no request failed).
C14_MissingNeverFails == faults = 0 => getRes # "failed to download cache"

\* C15: runDelete on a key that is not stored returns success, deletes
\* nothing and leaves the key absent (stated for a head request that reaches
\* the store).
C15_EvictAbsentSucceeds ==
    [][/\ delPc = "idle" /\ delPc' # "idle"
       /\ store[delKey'] = NoObj /\ faults' = faults
       => delPc' = "done" /\ delRes' = "ok" /\ store' = store]_vars

\* C16: when runDelete returns success the key holds no object, so that an
\* existence check reports it absent and a head request finds nothing; a key
\* without an object gets one only by the upload of a runPut.
C16_GoneUntilSaved ==
    [][/\ delPc = "delete" /\ delPc' = "done" /\ delRes' = "ok" =>
             store'[delKey] = NoObj /\ store[delKey] # NoObj
       /\ \A k \in Keys : store[k] = NoObj /\ store'[k] # NoObj =>
             \E j \in Jobs : uploaded'[j] = uploaded[j] + 1 /\ store'[k].by = j]_vars
C16_Witness ==
    /\ delPc = "done" /\ delRes = "ok"
    /\ store[delKey] # NoObj /\ store[delKey].by = "job1"
    /\ Returned("job1") /\ putRes["job1"] = "ok"
    /\ \E k \in Keys : store[k].by = Earlier

\* C17: with no part-size setting, PutObject resolves a part size within
\* [5 MiB, 100 MiB] for every file size, and StreamUpload and GetObject
\* resolve exactly 5 MiB.
C17_DefaultPartSizeInBounds ==
    /\ xfer.call = "PutObject" /\ tc.UploadPartSize = 0 =>
          xfer.partSize >= 5 * MiB /\ xfer.partSize <= 100 * MiB
    /\ xfer.call = "StreamUpload" /\ tc.UploadPartSize = 0 => xfer.partSize = 5 * MiB
    /\ xfer.call = "GetObject" /\ tc.DownloadPartSize = 0 => xfer.partSize = 5 * MiB
C17_Witness ==
    /\ xfer.call = "PutObject" /\ tc.UploadPartSize = 0
    /\ fileSize = Bytes(5 * 1024 * 1024, MiB - 1)
    /\ xfer.partSize = 100 * MiB

\* C18: a positive part-size setting is clamped into [5 MiB, 100 MiB] by all
\* three transfer calls: PutObject, StreamUpload and GetObject.
Clamped(ps) == IF ps < 5 * MiB THEN 5 * MiB ELSE IF ps > 100 * MiB THEN 100 * MiB ELSE ps
C18_OverrideClamped ==
    /\ xfer.call \in {"PutObject", "StreamUpload"} /\ tc.UploadPartSize > 0 =>
          xfer.partSize = Clamped(tc.UploadPartSize)
    /\ xfer.call = "GetObject" /\ tc.DownloadPartSize > 0 =>
          xfer.partSize = Clamped(tc.DownloadPartSize)

\* C19: for an upload of known size the number of parts, fileSize divided by
\* the resolved part size, is at most 10000 (stated with no part-size
\* setting).  fileSize \div p <= n is the same as fileSize \div (n + 1) < p.
C19_AtMostMaxParts ==
    xfer.call = "PutObject" /\ tc.UploadPartSize = 0 =>
        Div(fileSize, 10000 + 1) < xfer.partSize

\* C20: for a file of 500 GiB and no part-size setting PutObject resolves a
\* part size of 51 MiB.
FiveHundredGiB == Bytes(500 * 1024, 0)
C21_ConcurrencyResolved ==
    /\ xfer.call \in {"PutObject", "StreamUpload"} =>
          xfer.concurrency = IF tc.UploadConcurrency > 0 THEN tc.UploadConcurrency ELSE 10
    /\ xfer.call = "GetObject" =>
          xfer.concurrency = IF tc.DownloadConcurrency > 0 THEN tc.DownloadConcurrency ELSE 10
    /\ xfer.call # "none" => xfer.concurrency >= 1
C21_Witness ==
    /\ xfer.call = "StreamUpload" /\ tc.UploadConcurrency = 0 - 1
    /\ tc.DownloadConcurrency = 3
    /\ xfer.concurrency = 10

\* The regular files the patterns of the action select in the working tree.
Selected ==
    {p \in Paths :
        /\ fs[p].type = "reg"
        /\ \E i \in 1..Len(action.artifacts) :
              \E m \in Matches(action.artifacts[i], fs) : p \in Below(m, fs)}
Decoded == callerPc = "unzipped"
\* Decoding brought back the selected files, with their bodies, and nothing else.
SameContents ==
    /\ unzipErr = NoErr
    /\ RegularFiles(extractDir) = Selected
    /\ \A p \in Selected : extractDir[p].data = fs[p].data

\* C22: archive round trip.  For both compression modes and both encoders,
\* decoding the archive of the selected files in an empty directory succeeds
\* and yields exactly those files: same paths, same bodies, same permission
\* bits, and no other file.
C22_RoundTrip ==
    Decoded => /\ SameContents
               /\ \A p \in Selected : extractDir[p].mode = fs[p].mode

\* C23: encoding no pattern, or patterns that match nothing, is no error in
\* either encoder: the completion signal (the error returned by Zip) is nil,
\* the archive holds the trailer and no entry, and decoding it succeeds and
\* creates nothing.
NoEntries ==
    \A i \in 1..Len(action.artifacts) :
        action.artifacts[i] # BadPattern /\ Matches(action.artifacts[i], fs) = {}
EmptyArchive ==
    IF action.compression = CompressionZstd THEN <<Z(End), ZEnd>> ELSE <<End>>
C23_EmptyArchive ==
    NoEntries =>
        /\ callerSig \in {"none", NoErr}
        /\ encPc[Tester] = "done" => sent[Tester] = <<>> /\ body[Tester] = EmptyArchive
        /\ callerPc \in {"zipped", "unzipped"} => disk[ArchiveFile] = EmptyArchive
        /\ Decoded => unzipErr = NoErr /\ extractDir = EmptyTree
C23_Witness ==
    /\ NoEntries /\ Decoded
    /\ callerOrder = "drain first"
    /\ action.artifacts = <<"nomatch">> /\ action.compression = CompressionZstd
    /\ fs["d/a"].type = "reg"
    /\ extractDir = EmptyTree /\ unzipErr = NoErr

\* C24: when the decoding of runGet fails, no file of the working tree is
\* left holding a part of an entry's body: the file of the entry that was
\* being extracted is gone or empty.
C24_NoPartialFile ==
    getRes = "failed to unzip cache" =>
        \A p \in Paths : fs[p].type = "reg" => fs[p].data >= 0

\* C25: a runGet that returns a download error leaves no local archive file
\* behind, neither an empty nor a partly written one.
C25_NoLocalFileAfterFailedDownload ==
    getRes = "failed to download cache" => \A k \in Keys : disk[k] = NoFile

\* ---------------------------------------------------------------- exit status
verbStarted == putPc["job1"] # "idle" \/ getPc # "idle" \/ delPc # "idle"
verbSucceeded ==
    \/ action.Action = PutAction /\ putPc["job1"] = "done" /\ putRes["job1"] = "ok"
    \/ action.Action = GetAction /\ getPc = "done" /\ getRes = "ok"
    \/ action.Action = DeleteAction /\ delPc = "done" /\ delRes = "ok"

\* C26: the process ends with status 0 exactly when the configuration parsed,
\* the verb is one of put, get and delete, and the verb returned success; a
\* configuration error, an unknown verb and any error a verb returns end it
\* with a non-zero status.
C26_ExitStatus ==
    mainPc = "exited" =>
        /\ exitCode \in {0, 1}
        /\ exitCode = 0 <=>
              /\ ParseAction(env).err = NoErr
              /\ env.ACTION_ \in {PutAction, GetAction, DeleteAction}
              /\ verbSucceeded
\* Save ended with status 0 on a cache hit, without encoding anything.
C26_Witness ==
    /\ mainPc = "exited"
    /\ exitCode = 0
    /\ env.ACTION_ = PutAction
    /\ env.BUCKET = "bucket"
    /\ encPc["job1"] = "off"
    /\ store[Requested] # NoObj

\* C27: ParseAction rejects every compression mode other than zstd and none,
\* an unset mode selecting zstd; the key of an accepted configuration ends in
\* .tar under none and in .tar.zst under zstd.
C27_CompressionValidated ==
    /\ mainPc = "start" =>
          LET parsed == ParseAction(env)
          IN  /\ parsed.err = NoErr <=> env.COMPRESSION \in {"", "zstd", "none"}
              /\ parsed.err = NoErr =>
                    /\ parsed.action.compression =
                          (IF env.COMPRESSION = "" THEN "zstd" ELSE env.COMPRESSION)
                    /\ parsed.action.Key =
                          <<env.KEY, IF parsed.action.compression = "none"
                                     THEN ".tar" ELSE ".tar.zst">>
    /\ mainPc = "verb" \/ verbStarted =>
          /\ action.compression \in {"zstd", "none"}
          /\ action.Key[2] = (IF action.compression = "none" THEN ".tar" ELSE ".tar.zst")
    /\ env.COMPRESSION \notin {"", "zstd", "none"} /\ mainPc = "exited" =>
          exitCode = 1 /\ ~verbStarted
\* A process given COMPRESSION=gzip has exited without calling its verb.
C27_Witness ==
    /\ env.COMPRESSION = "gzip"
    /\ env.ACTION_ = PutAction
    /\ env.BUCKET = "bucket"
    /\ mainPc = "exited"
    /\ exitCode = 1

\* C28: a process missing its verb, its bucket or its key never starts a
\* verb, so it performs no store or filesystem operation, and it does not
\* end with status 0.
C28_MissingFieldIsFatal ==
    env.ACTION_ = "" \/ env.BUCKET = "" \/ env.KEY = "" =>
        /\ ~verbStarted
        /\ mainPc = "exited" => exitCode # 0

C30_DecodesWithConfiguredMode ==
    [][getPc = "unzip" /\ getPc' = "done" =>
         LET r == Unzip(disk[getFile], action.compression, fs, umask)
         IN  /\ fs' = r.fs
             /\ getRes' = "ok" <=> r.err = NoErr]_vars
\* The fallback selected an object saved under the other mode, and decoding
\* it with the configured mode failed.
C30_Witness ==
    /\ getPc = "done"
    /\ getFile # KeyOf(action.compression)
    /\ modeOf(getFile) # action.compression
    /\ disk[getFile] # NoFile
    /\ disk[getFile] = store[getFile].bytes
    /\ getRes = "failed to unzip cache"

\* ---------------------------------------------------------------- entries
\* The headers among items, in order.
RECURSIVE Headers(_)
Headers(items) ==
    IF items = <<>> THEN <<>>
    ELSE IF Head(items).t = "hdr"
         THEN <<Head(items).name>> \o Headers(Tail(items))
         ELSE Headers(Tail(items))
\* The nodes the walks of the patterns visit, in order.
RECURSIVE Visited(_, _)
Visited(artifacts, tree) ==
    IF artifacts = <<>> THEN <<>>
    ELSE WalkList(Head(artifacts), tree) \o Visited(Tail(artifacts), tree)
WellFormed(artifacts) == \A i \in 1..Len(artifacts) : artifacts[i] # BadPattern

\* C31: Zip over well-formed patterns succeeds and its archive holds, for
\* every node the walks visit, one header, in the order visited; the header
\* is followed by a body exactly when the node is a regular file.
C31_OneHeaderPerNode ==
    /\ callerPc \in {"zipped", "failed"}
    /\ callerOrder = "buffered"
    /\ WellFormed(action.artifacts)
    =>
        LET a == archiveArtifacts(action.artifacts, fs)
            items == a.items
        IN  /\ callerSig = NoErr
            /\ disk[ArchiveFile] = Zip(action.artifacts, action.compression, fs).bytes
            /\ Headers(items) = Visited(action.artifacts, fs)
            /\ \A i \in 1..Len(items) :
                  /\ items[i].t \in {"hdr", "data"}
                  /\ items[i].t = "data" => i > 1 /\ items[i - 1].t = "hdr"
                  /\ items[i].t = "hdr" =>
                        (items[i].kind = "reg" <=>
                            i < Len(items) /\ items[i + 1].t = "data")

\* ---------------------------------------------------------------- directory entries
\* The entries of the archive file the caller decoded, as the tar reader
\* returns them.
Decodable == tarSource(disk[ArchiveFile], action.compression).items
HeadersOfKind(kinds) ==
    {Decodable[i].name : i \in {k \in 1..Len(Decodable) :
                                  Decodable[k].t = "hdr" /\ Decodable[k].kind \in kinds}}

\* C32: after Unzip in an empty directory, the nodes that exist are the
\* regular-file entries of the archive and the parent directories of those;
\* an archive without a regular-file entry decodes with success and leaves
\* the directory empty.
C32_DirectoriesOnlyAsParents ==
    callerPc = "unzipped" =>
        /\ \A p \in Paths :
              /\ extractDir[p].type = "reg" <=> p \in HeadersOfKind({"reg"})
              /\ extractDir[p].type = "dir" <=>
                    \E q \in HeadersOfKind({"reg"}) : Parent(q) = p
        /\ HeadersOfKind({"reg"}) = {} =>
              unzipErr = NoErr /\ extractDir = EmptyTree
\* An archive whose only entry is the directory "d" has been decoded.
C32_Witness ==
    /\ callerPc = "unzipped"
    /\ HeadersOfKind({"dir"}) = {"d"}
    /\ HeadersOfKind({"reg"}) = {}
    /\ unzipErr = NoErr
    /\ extractDir = EmptyTree

\* ---------------------------------------------------------------- clamp, then round
RoundedUp(ps) == ((ps + MiB - 1) \div MiB) * MiB
C34_SaveLeavesLocalFiles ==
    [][putVars' # putVars \/ encVars' # encVars => fs' = fs /\ disk' = disk]_vars
\* A save has uploaded its archive and returned, and no local archive file
\* exists.
C34_Witness ==
    /\ putPc["job1"] = "done"
    /\ putRes["job1"] = "ok"
    /\ store[KeyOf(action.compression)].by = "job1"
    /\ \A k \in Keys : disk[k] = NoFile
    /\ fs = FullTree

\* ---------------------------------------------------------------- restore reads only
\* C35: no step of runGet changes the store, on any of its paths: the
\* objects stored and their contents are the same after the step as before.
C35_RestoreLeavesStore ==
    [][getVars' # getVars => store' = store]_vars
\* A restore has downloaded and decoded an object, which is still stored
\* with the bytes that were downloaded.
C35_Witness ==
    /\ getPc = "done"
    /\ getRes = "ok"
    /\ store[getFile] # NoObj
    /\ disk[getFile] = store[getFile].bytes
    /\ delPc = "idle"
    /\ putPc["job1"] = "idle"

\* ---------------------------------------------------------------- no patterns
NoPatterns == Len(action.artifacts) = 0 \/ action.artifacts[1] = ""
\* C36: when the list of patterns is empty or its first pattern is empty,
\* the only step of runPut is its return of "no artifacts patterns
\* provided": no head request is sent, no encoder is started, nothing is
\* uploaded and the store is unchanged.
C36_NoPatternsNoRequest ==
    [][NoPatterns /\ (putVars' # putVars \/ encVars' # encVars) =>
         /\ putPc["job1"] = "idle" /\ putPc'["job1"] = "done"
         /\ putRes'["job1"] = "no artifacts patterns provided"
         /\ putSaw' = putSaw
         /\ encVars' = encVars
         /\ uploaded' = uploaded
         /\ faults' = faults
         /\ store' = store]_vars
\* A process told to save with ARTIFACTS unset has failed in runPut.
C36_Witness ==
    /\ env.ACTION_ = PutAction
    /\ env.BUCKET = "bucket"
    /\ env.ARTIFACTS = <<>>
    /\ action.artifacts = <<"">>
    /\ putRes["job1"] = "no artifacts patterns provided"
    /\ mainPc = "exited"
    /\ exitCode = 1
====
